---- MODULE Spec2Model ----
(***************************************************************************)
(* A model of lacky's workflow execution engine: the job scheduler of      *)
(* runWorkflow, the expression resolver, the condition evaluator and the   *)
(* matrix expansion.                                                       *)
(*                                                                         *)
(* Text (conditions, commands, expressions) is a sequence of lexical       *)
(* tokens <<kind, text>>; the regular expressions and the string           *)
(* operations of the source are modelled on these sequences.               *)
(***************************************************************************)
EXTENDS Integers, Sequences, FiniteSets, TLC

VARIABLES
    mode,               \* which entry point this behaviour exercises
    wf,                 \* the workflow handed to runWorkflow
    isDryRun,
    pc,                 \* position inside runWorkflow
    passIdx,            \* index of the for loop over jobNames
    anyJobRun,
    completedJobs,
    matrixValues,       \* binding sets of the job being run
    mi,                 \* index of the matrix instance being run
    si,                 \* index of the step being run
    runAllJobsMode,
    runAllCommandsMode,
    resolvedVariables,  \* context.resolvedVariables
    stepOutputs,        \* context.stepOutputs
    jobOutputs,         \* context.jobOutputs
    executionResults,
    cur,                \* locals of the suspended runJobInstance
    hist,               \* history of the run (what was started, executed, asked)
    fn,                 \* input and result of a directly called function
    workflowWorkingDir  \* the resolved working directory of the workflow's defaults

vars == <<mode, wf, isDryRun, pc, passIdx, anyJobRun, completedJobs, matrixValues,
          mi, si, runAllJobsMode, runAllCommandsMode, resolvedVariables,
          stepOutputs, jobOutputs, executionResults, cur, hist, fn,
          workflowWorkingDir>>

-----------------------------------------------------------------------------
\* a Map or an object without entries
EmptyMap == [x \in {} |-> x]

(* Tokens *)

Id(t)  == <<"id", t>>
Str(v) == <<"str", v>>      \* a quoted string literal
Raw(v) == <<"raw", v>>      \* text substituted into a command
Op(t)  == <<"op", t>>
Dot    == <<".", ".">>
Ws     == <<"ws", " ">>     \* one whitespace character
LP     == <<"(", "(">>
RP     == <<")", ")">>
Comma  == <<",", ",">>
OpenB  == <<"${{", "${{">>
CloseB == <<"}}", "}}">>

Quote(v) == "\"" \o v \o "\""

TokText(t) == IF t[1] = "str" THEN Quote(t[2]) ELSE t[2]

RECURSIVE Text(_)
Text(s) == IF s = <<>> THEN "" ELSE TokText(Head(s)) \o Text(Tail(s))

\* a.b.c as tokens
RECURSIVE Dotted(_)
Dotted(names) ==
    IF Len(names) = 1 THEN <<Id(names[1])>>
    ELSE <<Id(names[1]), Dot>> \o Dotted(Tail(names))

Wrap(e) == <<OpenB, Ws>> \o e \o <<Ws, CloseB>>

\* String.prototype.trim
RECURSIVE TrimLeft(_)
TrimLeft(s) == IF s # <<>> /\ Head(s)[1] = "ws" THEN TrimLeft(Tail(s)) ELSE s

RECURSIVE TrimRight(_)
TrimRight(s) ==
    IF s # <<>> /\ s[Len(s)][1] = "ws" THEN TrimRight(SubSeq(s, 1, Len(s) - 1)) ELSE s

Trim(s) == TrimRight(TrimLeft(s))

StartsWith(s, p) == Len(s) >= Len(p) /\ SubSeq(s, 1, Len(p)) = p

\* String.prototype.indexOf, 1-based, 0 when absent
IndexOf(s, p) ==
    LET hits == {i \in 1..(Len(s) - Len(p) + 1) : SubSeq(s, i, i + Len(p) - 1) = p}
    IN  IF hits = {} THEN 0 ELSE CHOOSE i \in hits : \A j \in hits : i <= j

Includes(s, p) == IndexOf(s, p) # 0

\* String.prototype.replace(pattern: string, replacement): the first occurrence only
ReplaceFirst(s, p, r) ==
    LET i == IndexOf(s, p)
    IN  IF i = 0 THEN s
        ELSE SubSeq(s, 1, i - 1) \o r \o SubSeq(s, i + Len(p), Len(s))

\* least index >= from holding tok, 0 when none
FindTok(s, tok, from) ==
    LET hits == {i \in from..Len(s) : s[i] = tok}
    IN  IF hits = {} THEN 0 ELSE CHOOSE i \in hits : \A j \in hits : i <= j

\* /\$\{\{\s*([^}]+)\s*\}\}/g, each capture trimmed
RECURSIVE ExtractFrom(_, _)
ExtractFrom(s, from) ==
    LET o == FindTok(s, OpenB, from)
        c == IF o = 0 THEN 0 ELSE FindTok(s, CloseB, o + 1)
    IN  IF o = 0 \/ c = 0 THEN <<>>
        ELSE IF c = o + 1 THEN ExtractFrom(s, o + 1)
        ELSE <<Trim(SubSeq(s, o + 1, c - 1))>> \o ExtractFrom(s, c + 1)

extractGitHubExpressions(s) == ExtractFrom(s, 1)

-----------------------------------------------------------------------------
(* The user: every prompt takes the next scripted answer; an exhausted     *)
(* script answers with Enter.  r is the context threaded through a call:   *)
(* rv = resolvedVariables, jo = jobOutputs, so = stepOutputs, ans = the    *)
(* script, asked and calls = what was prompted and what was resolved.      *)

NextAnswer(r) == IF r.ans = <<>> THEN "" ELSE Head(r.ans)

Prompted(r, kind, key) ==
    [r EXCEPT !.ans = IF @ = <<>> THEN <<>> ELSE Tail(@),
              !.asked = Append(@, <<kind, key>>)]

\* String.prototype.trim on an answer
StrTrim(v) == IF v = " " THEN "" ELSE IF v = " u1 " THEN "u1" ELSE v

\* inquirer input with a default, then trim
askUserForInput(r, key, placeholder) ==
    [v |-> StrTrim(IF NextAnswer(r) = "" THEN placeholder ELSE NextAnswer(r)),
     r |-> Prompted(r, "input", key)]

askUserForSecret(r, key) ==
    [v |-> NextAnswer(r), r |-> Prompted(r, "secret", key)]

\* inquirer list: one of the options
askUserToSelectFromMenu(r, key, options) ==
    [v |-> IF \E i \in 1..Len(options) : options[i] = NextAnswer(r)
           THEN NextAnswer(r) ELSE options[1],
     r |-> Prompted(r, "menu", key)]

GITHUB_CONTEXT_OPTIONS ==
    [k \in {"github.ref_type", "github.event_name"} |->
        IF k = "github.ref_type" THEN <<"branch", "tag">>
        ELSE <<"push", "pull_request", "workflow_dispatch", "schedule",
               "release", "create", "delete">>]

\* JSON.parse on the texts that occur as values: [ok, arr, items, text]
\* (text = JSON.stringify of the parsed value)
JsonParse(v) ==
    CASE v = "[\"a\",\"b\"]" -> [ok |-> TRUE, arr |-> TRUE, items |-> <<"a", "b">>, text |-> v]
      [] v = "[ \"a\" ]"     -> [ok |-> TRUE, arr |-> TRUE, items |-> <<"a">>, text |-> "[\"a\"]"]
      [] v = "[\"b\"]"       -> [ok |-> TRUE, arr |-> TRUE, items |-> <<"b">>, text |-> v]
      [] v = "[]"            -> [ok |-> TRUE, arr |-> TRUE, items |-> <<>>, text |-> v]
      [] v = "7"             -> [ok |-> TRUE, arr |-> FALSE, items |-> <<"7">>, text |-> v]
      [] OTHER               -> [ok |-> FALSE, arr |-> FALSE, items |-> <<v>>, text |-> v]

\* a resolver that forgets what it resolved
CachedNowhere(r, key, v) == r

\* a set that drops what the map held
CachedAlone(r, key, v) == [r EXCEPT !.rv = (key :> v)]

\* context.resolvedVariables.set(key, v)
Cached(r, key, v) == [r EXCEPT !.rv = (key :> v) @@ @]

\* history of resolveGitHubExpression: what each call returned and where from
Called(r, key, v, src) == [r EXCEPT !.calls = @ \cup {<<key, v, src>>}]

JoHas(jo, j, n) == j \in DOMAIN jo /\ n \in DOMAIN jo[j]

SoHas(so, j, s, n) == j \in DOMAIN so /\ s \in DOMAIN so[j] /\ n \in DOMAIN so[j][s]

\* /needs\.([^.]+)\.outputs\.(.+)/ : [ok, job, out]
NeedsOutputMatch(e) ==
    LET hits == {i \in 1..Len(e) :
                    /\ e[i] = Id("needs") /\ i + 1 <= Len(e) /\ e[i + 1] = Dot
                    /\ \E d \in (i + 3)..Len(e) :
                          /\ e[d] = Dot
                          /\ \A k \in (i + 2)..(d - 1) : e[k] # Dot
                          /\ d + 3 <= Len(e)
                          /\ e[d + 1] = Id("outputs") /\ e[d + 2] = Dot}
    IN  IF hits = {} THEN [ok |-> FALSE, job |-> "", out |-> ""]
        ELSE LET i == CHOOSE x \in hits : \A y \in hits : x <= y
                 d == CHOOSE x \in (i + 3)..Len(e) : e[x] = Dot /\ \A k \in (i + 2)..(x - 1) : e[k] # Dot
             IN  [ok |-> TRUE, job |-> Text(SubSeq(e, i + 2, d - 1)),
                  out |-> Text(SubSeq(e, d + 3, Len(e)))]

\* /fromJSON\(([^)]+)\)/ : [ok, inner]
FromJsonMatch(e) ==
    LET hits == {i \in 1..Len(e) :
                    /\ e[i] = Id("fromJSON") /\ i + 1 <= Len(e) /\ e[i + 1] = LP
                    /\ FindTok(e, RP, i + 2) > i + 2}
    IN  IF hits = {} THEN [ok |-> FALSE, inner |-> <<>>]
        ELSE LET i == CHOOSE x \in hits : \A y \in hits : x <= y
             IN  [ok |-> TRUE, inner |-> SubSeq(e, i + 2, FindTok(e, RP, i + 2) - 1)]

\* a branch that asks and returns the answer without context.resolvedVariables.set
AskAndForget(r, key, placeholder) ==
    LET a == askUserForInput(r, key, placeholder)
    IN  [v |-> a.v, r |-> Called(a.r, key, a.v, "prompt"), src |-> "prompt"]

AskAndCache(r, key, placeholder) ==
    LET a == askUserForInput(r, key, placeholder)
    IN  [v |-> a.v, r |-> Called(Cached(a.r, key, a.v), key, a.v, "prompt"), src |-> "prompt"]

RECURSIVE resolveGitHubExpression(_, _, _)
resolveGitHubExpression(e, env, r) ==
    LET key == Text(e)
        nm  == NeedsOutputMatch(e)
        fj  == FromJsonMatch(e)
    IN
    IF key \in DOMAIN r.rv
    THEN [v |-> r.rv[key], r |-> Called(r, key, r.rv[key], "cache"), src |-> "cache"]
    ELSE IF key \in DOMAIN GITHUB_CONTEXT_OPTIONS
    THEN LET a == askUserToSelectFromMenu(r, key, GITHUB_CONTEXT_OPTIONS[key])
         IN  [v |-> a.v, r |-> Called(Cached(a.r, key, a.v), key, a.v, "prompt"), src |-> "prompt"]
    ELSE IF StartsWith(e, Dotted(<<"github", "event", "inputs">>) \o <<Dot>>)
    THEN AskAndCache(r, key, "my-value")
    ELSE IF StartsWith(e, <<Id("secrets"), Dot>>)
    THEN LET a == askUserForSecret(r, key)
         IN  [v |-> a.v, r |-> Called(Cached(a.r, key, a.v), key, a.v, "prompt"), src |-> "prompt"]
    ELSE IF StartsWith(e, <<Id("env"), Dot>>)
    THEN LET name == Text(SubSeq(e, 3, Len(e)))
         IN  IF name \in DOMAIN env /\ env[name] # ""
             THEN [v |-> env[name], r |-> Called(Cached(r, key, env[name]), key, env[name], "env"),
                   src |-> "env"]
             ELSE AskAndCache(r, key, "value")
    ELSE IF StartsWith(e, Dotted(<<"github", "ref_name">>))
    THEN AskAndCache(r, key, "main")
    ELSE IF StartsWith(e, Dotted(<<"github", "sha">>))
    THEN AskAndCache(r, key, "abc123def456")
    ELSE IF StartsWith(e, Dotted(<<"github", "workspace">>))
    THEN AskAndCache(r, key, "/home/runner/work/repo/repo")
    ELSE IF fj.ok
    THEN LET inner == resolveGitHubExpression(fj.inner, env, r)
             src == IF inner.src \in {"live", "livejson"} THEN "livejson" ELSE "json"
         IN  [v |-> JsonParse(inner.v).text, r |-> Called(inner.r, key, JsonParse(inner.v).text, src),
              src |-> src]
    ELSE IF nm.ok
    THEN IF JoHas(r.jo, nm.job, nm.out)
         THEN [v |-> r.jo[nm.job][nm.out],
               r |-> Called(r, key, r.jo[nm.job][nm.out], "live"), src |-> "live"]
         ELSE AskAndCache(r, key, "output-value")
    ELSE AskAndCache(r, key, "value")

\* /^steps\.([^.]+)\.outputs\.(.+)$/ : [ok, step, out]
StepOutputMatch(e) ==
    LET ds == {d \in 4..Len(e) :
                  /\ e[d] = Dot /\ \A k \in 3..(d - 1) : e[k] # Dot
                  /\ d + 3 <= Len(e) /\ e[d + 1] = Id("outputs") /\ e[d + 2] = Dot}
    IN  IF Len(e) >= 2 /\ e[1] = Id("steps") /\ e[2] = Dot /\ ds # {}
        THEN LET d == CHOOSE x \in ds : TRUE
             IN  [ok |-> TRUE, step |-> Text(SubSeq(e, 3, d - 1)),
                  out |-> Text(SubSeq(e, d + 3, Len(e)))]
        ELSE [ok |-> FALSE, step |-> "", out |-> ""]

resolveStepOutput(e, currentJobName, r) ==
    LET m == StepOutputMatch(e)
    IN  IF m.ok /\ SoHas(r.so, currentJobName, m.step, m.out)
        THEN [v |-> r.so[currentJobName][m.step][m.out], r |-> r]
        ELSE askUserForInput(r, Text(e), "output-value")

\* A replacement text is read for its $ patterns.  The texts below hold some, given
\* in parts; any other text holds none.
DollarParts ==
    ("a$$b" :> <<"a", "$$", "b">>) @@ ("$&" :> <<"$&">>)

\* what one part of a replacement text stands for: $$ for $, $& for the matched text
DollarPart(part, matched) ==
    IF part = "$$" THEN "$" ELSE IF part = "$&" THEN matched ELSE part

RECURSIVE ExpandAll(_, _)
ExpandAll(parts, matched) ==
    IF parts = <<>> THEN ""
    ELSE DollarPart(Head(parts), matched) \o ExpandAll(Tail(parts), matched)

\* what String.prototype.replace(pattern: string, replacement: string) puts in the
\* place of the matched text
GetSubstitution(value, matched) ==
    IF value \in DOMAIN DollarParts THEN ExpandAll(DollarParts[value], matched) ELSE value

\* resolved.replace('${{ ' + expression + ' }}', value) on the text of t = [text, r],
\* x being what the resolver returned; a condition takes the value in quotes
Substitute(t, e, x, quoted) ==
    [text |-> ReplaceFirst(t.text, Wrap(e),
                           <<IF quoted THEN Str(GetSubstitution(x.v, Text(Wrap(e))))
                             ELSE Raw(GetSubstitution(x.v, Text(Wrap(e))))>>),
     r |-> x.r]

\* A value of a matrix is written as its text.  The texts below are objects (the
\* entries of an include list), given with their properties; any other text is a
\* string.
EntryTerraform == "{directory:terraform,region:us-west-2}"
EntryApp == "{directory:app,region:eu-west-1}"

ObjectProps ==
    (EntryTerraform :> (("directory" :> "terraform") @@ ("region" :> "us-west-2")))
    @@ (EntryApp :> (("directory" :> "app") @@ ("region" :> "eu-west-1")))

IsObject(v) == v \in DOMAIN ObjectProps

\* String(value)
String(v) == IF IsObject(v) THEN "[object Object]" ELSE v

\* matrixValue is [has, b]: has = an object was passed, b = its properties
resolveOne(e, env, jobName, r, matrixValue) ==
    IF StartsWith(e, <<Id("matrix"), Dot>>) /\ matrixValue.has
    THEN IF Text(SubSeq(e, 3, Len(e))) \in DOMAIN matrixValue.b
         THEN [v |-> String(matrixValue.b[Text(SubSeq(e, 3, Len(e)))]), r |-> r]
         ELSE askUserForInput(r, Text(e), "matrix-value")
    ELSE IF StartsWith(e, <<Id("steps"), Dot>>) /\ Includes(e, <<Dot, Id("outputs"), Dot>>)
    THEN resolveStepOutput(e, jobName, r)
    ELSE resolveGitHubExpression(e, env, r)

\* the for loop of resolveVariablesInCommand over the extracted expressions
RECURSIVE ResolveEach(_, _, _, _, _)
ResolveEach(es, t, env, jobName, matrixValue) ==
    IF es = <<>> THEN t
    ELSE ResolveEach(Tail(es),
                     Substitute(t, Head(es), resolveOne(Head(es), env, jobName, t.r, matrixValue),
                                FALSE),
                     env, jobName, matrixValue)

\* [text, r]: the resolved command and the context after resolving it
resolveVariablesInCommand(command, env, jobName, r, matrixValue) ==
    ResolveEach(extractGitHubExpressions(command), [text |-> command, r |-> r], env, jobName,
                matrixValue)

\* /\$?\{\{\s*steps\.([^.]+)\.outputs\.(.+?)\s*\}\}/ : [ok, step, out]
JobOutputStepMatch(x) ==
    LET hits == {o \in 1..Len(x) :
                    /\ x[o] = OpenB
                    /\ LET t == o + Len(SubSeq(x, o + 1, Len(x))) - Len(TrimLeft(SubSeq(x, o + 1, Len(x)))) + 1
                           c == FindTok(x, CloseB, o + 1)
                       IN  /\ c # 0 /\ t + 1 < c
                           /\ x[t] = Id("steps") /\ x[t + 1] = Dot
                           /\ \E d \in (t + 3)..(c - 1) :
                                 /\ x[d] = Dot /\ \A k \in (t + 2)..(d - 1) : x[k] # Dot
                                 /\ d + 3 < c /\ x[d + 1] = Id("outputs") /\ x[d + 2] = Dot}
    IN  IF hits = {} THEN [ok |-> FALSE, step |-> "", out |-> ""]
        ELSE LET o == CHOOSE a \in hits : \A b \in hits : a <= b
                 t == o + Len(SubSeq(x, o + 1, Len(x))) - Len(TrimLeft(SubSeq(x, o + 1, Len(x)))) + 1
                 c == FindTok(x, CloseB, o + 1)
                 d == CHOOSE a \in (t + 3)..(c - 1) : x[a] = Dot /\ \A k \in (t + 2)..(a - 1) : x[k] # Dot
                 nm == SubSeq(x, d + 3, c - 1)
             IN  [ok |-> TRUE, step |-> Text(SubSeq(x, t + 2, d - 1)),
                  out |-> Text(<<Head(nm)>> \o TrimRight(Tail(nm)))]

resolveJobOutputExpression(x, jobName, env, r) ==
    IF Includes(x, <<Id("steps"), Dot>>) /\ Includes(x, <<Dot, Id("outputs"), Dot>>)
    THEN LET m == JobOutputStepMatch(x)
         IN  IF m.ok /\ SoHas(r.so, jobName, m.step, m.out)
             THEN [v |-> r.so[jobName][m.step][m.out], r |-> r]
             ELSE askUserForInput(r, Text(x), "output-value")
    ELSE resolveGitHubExpression(x, env, r)

-----------------------------------------------------------------------------
(* eval(resolvedCondition): the JavaScript expression grammar the          *)
(* conditions use (||, &&, ==, !=, !, calls, member access, literals),     *)
(* parsed first (a SyntaxError evaluates nothing) and then evaluated with  *)
(* short-circuit, a ReferenceError being raised only where it is reached.  *)

JsStr(v)  == [t |-> "str", b |-> FALSE, s |-> v]
JsBool(b) == [t |-> "bool", b |-> b, s |-> ""]
JsUndef   == [t |-> "undef", b |-> FALSE, s |-> ""]
JsFn(n)   == [t |-> "fn", b |-> TRUE, s |-> n]

\* Boolean(x)
Truthy(x) ==
    CASE x.t = "bool" -> x.b
      [] x.t = "str"  -> x.s # ""
      [] x.t = "fn"   -> TRUE
      [] OTHER        -> FALSE

\* ToNumber of a string or boolean: "nan" when it is no number
ToNumber(x) ==
    CASE x.t = "bool" -> IF x.b THEN "1" ELSE "0"
      [] x.t = "str" /\ x.s \in {"", "0"} -> "0"
      [] x.t = "str" /\ x.s = "1" -> "1"
      [] x.t = "str" /\ x.s = "7" -> "7"
      [] OTHER -> "nan"

\* the == of JavaScript
LooseEq(a, b) ==
    IF a.t = b.t THEN a = b
    ELSE IF a.t \notin {"str", "bool"} \/ b.t \notin {"str", "bool"} THEN FALSE
    ELSE ToNumber(a) # "nan" /\ ToNumber(a) = ToNumber(b)

StatusFunctions == {"always", "success", "failure", "cancelled"}
StringFunctions == {"startsWith", "endsWith", "contains"}

\* the value tables of startsWith / endsWith / includes on the strings in use
StrStartsWith(a, b) ==
    \/ b = "" \/ a = b
    \/ <<a, b>> \in {<<"refs/tags/v1", "refs/tags/">>, <<"main", "ma">>}

StrEndsWith(a, b) ==
    \/ b = "" \/ a = b
    \/ <<a, b>> \in {<<"refs/tags/v1", "v1">>, <<"main", "in">>}

StrIncludes(a, b) ==
    \/ StrStartsWith(a, b) \/ StrEndsWith(a, b)
    \/ <<a, b>> \in {<<"refs/tags/v1", "tags">>, <<"main", "ai">>}

\* status functions that look at what has happened in the run
CallBuiltinTracking(name, args) ==
    LET failed == \E i \in DOMAIN executionResults : executionResults[i].status = "failed"
    IN  CASE name = "always"    -> JsBool(TRUE)
          [] name = "success"   -> JsBool(~failed)
          [] name = "failure"   -> JsBool(failed)
          [] OTHER              -> JsBool(FALSE)

\* the functions in scope of eval (job.ts 88-108): args are the evaluated arguments
CallBuiltin(name, args) ==
    LET a == IF Len(args) >= 1 THEN args[1] ELSE JsUndef
        b == IF Len(args) >= 2 THEN args[2] ELSE JsUndef
        strs == a.t = "str" /\ b.t = "str"
    IN  CASE name = "always"     -> JsBool(TRUE)
          [] name = "success"    -> JsBool(TRUE)
          [] name = "failure"    -> JsBool(FALSE)
          [] name = "cancelled"  -> JsBool(FALSE)
          [] name = "startsWith" -> JsBool(strs /\ StrStartsWith(a.s, b.s))
          [] name = "endsWith"   -> JsBool(strs /\ StrEndsWith(a.s, b.s))
          [] OTHER               -> JsBool(strs /\ StrIncludes(a.s, b.s))

NoWs(ts) == SelectSeq(ts, LAMBDA t : t[1] # "ws")

PFail == [ok |-> FALSE, ast |-> <<"err">>, rest |-> <<>>]

POk(ast, rest) == [ok |-> TRUE, ast |-> ast, rest |-> rest]

\* the parsed operand x placed as the last child of the node begun by pre
Under(pre, x) == IF x.ok THEN POk(Append(pre, x.ast), x.rest) ELSE PFail

\* the closing parenthesis after a parenthesised expression
Closed(x) ==
    IF x.ok /\ x.rest # <<>> /\ Head(x.rest) = RP THEN POk(x.ast, Tail(x.rest)) ELSE PFail

\* Parse(k, a, ts): the production k on the tokens ts; a is the left operand of a
\* tail production and the arguments parsed so far of "args"
RECURSIVE Parse(_, _, _)

\* the production k continued after the operand l
Then(l, k) == IF l.ok THEN Parse(k, l.ast, l.rest) ELSE PFail

\* after one argument: the closing parenthesis or a comma and the next argument
ArgsNext(x, done) ==
    IF ~x.ok \/ x.rest = <<>> THEN PFail
    ELSE IF Head(x.rest) = RP THEN POk(Append(done, x.ast), Tail(x.rest))
    ELSE IF Head(x.rest) = Comma THEN Parse("args", Append(done, x.ast), Tail(x.rest))
    ELSE PFail

Parse(k, a, ts) ==
    CASE k = "or"  -> Then(Parse("and", <<>>, ts), "orTail")
      [] k = "and" -> Then(Parse("eq", <<>>, ts), "andTail")
      [] k = "eq"  -> Then(Parse("unary", <<>>, ts), "eqTail")
      [] k = "orTail" ->
            IF ts # <<>> /\ Head(ts) = Op("||")
            THEN Then(Under(<<"or", a>>, Parse("and", <<>>, Tail(ts))), "orTail")
            ELSE POk(a, ts)
      [] k = "andTail" ->
            IF ts # <<>> /\ Head(ts) = Op("&&")
            THEN Then(Under(<<"and", a>>, Parse("eq", <<>>, Tail(ts))), "andTail")
            ELSE POk(a, ts)
      [] k = "eqTail" ->
            IF ts # <<>> /\ Head(ts) \in {Op("=="), Op("!=")}
            THEN Then(Under(<<"cmp", Head(ts)[2], a>>, Parse("unary", <<>>, Tail(ts))), "eqTail")
            ELSE POk(a, ts)
      [] k = "unary" ->
            IF ts # <<>> /\ Head(ts) = Op("!")
            THEN Under(<<"not">>, Parse("unary", <<>>, Tail(ts)))
            ELSE Then(Parse("primary", <<>>, ts), "postfix")
      [] k = "postfix" ->
            IF ts # <<>> /\ Head(ts) = Dot
            THEN IF Len(ts) >= 2 /\ ts[2][1] = "id"
                 THEN Parse("postfix", <<"member", a, ts[2][2]>>, Tail(Tail(ts)))
                 ELSE PFail
            ELSE POk(a, ts)
      [] k = "args" -> ArgsNext(Parse("or", <<>>, ts), a)
      [] OTHER ->
            IF ts = <<>> THEN PFail
            ELSE IF Head(ts)[1] = "str" THEN POk(<<"lit", JsStr(Head(ts)[2])>>, Tail(ts))
            ELSE IF Head(ts)[1] = "id"
            THEN IF Head(ts)[2] \in {"true", "false"}
                 THEN POk(<<"lit", JsBool(Head(ts)[2] = "true")>>, Tail(ts))
                 ELSE IF Len(ts) >= 2 /\ ts[2] = LP
                 THEN IF Len(ts) >= 3 /\ ts[3] = RP
                      THEN POk(<<"call", Head(ts)[2], <<>>>>, SubSeq(ts, 4, Len(ts)))
                      ELSE Under(<<"call", Head(ts)[2]>>, Parse("args", <<>>, SubSeq(ts, 3, Len(ts))))
                 ELSE POk(<<"ref", Head(ts)[2]>>, Tail(ts))
            ELSE IF Head(ts) = LP THEN Closed(Parse("or", <<>>, Tail(ts)))
            ELSE PFail

\* an exception raised by eval, carried as a value
JsThrown == [t |-> "thrown", b |-> FALSE, s |-> ""]

RECURSIVE JsEval(_)

\* the evaluated arguments of a call, or <<JsThrown>> when one of them throws
RECURSIVE JsEvalArgs(_, _)
JsEvalArgs(ns, done) ==
    IF ns = <<>> THEN done
    ELSE IF JsEval(Head(ns)) = JsThrown THEN <<JsThrown>>
    ELSE JsEvalArgs(Tail(ns), Append(done, JsEval(Head(ns))))

JsEval(n) ==
    CASE n[1] = "lit" -> n[2]
      [] n[1] = "ref" ->
            IF n[2] \in StatusFunctions \cup StringFunctions THEN JsFn(n[2]) ELSE JsThrown
      [] n[1] = "member" ->
            IF JsEval(n[2]).t \in {"thrown", "undef"} THEN JsThrown ELSE JsUndef
      [] n[1] = "not" ->
            IF JsEval(n[2]) = JsThrown THEN JsThrown ELSE JsBool(~Truthy(JsEval(n[2])))
      [] n[1] = "or" ->
            IF JsEval(n[2]) = JsThrown \/ Truthy(JsEval(n[2])) THEN JsEval(n[2])
            ELSE JsEval(n[3])
      [] n[1] = "and" ->
            IF JsEval(n[2]) = JsThrown \/ ~Truthy(JsEval(n[2])) THEN JsEval(n[2])
            ELSE JsEval(n[3])
      [] n[1] = "cmp" ->
            IF JsEval(n[3]) = JsThrown \/ JsEval(n[4]) = JsThrown THEN JsThrown
            ELSE JsBool((n[2] = "==") = LooseEq(JsEval(n[3]), JsEval(n[4])))
      [] n[1] = "call" ->
            IF n[2] \notin StatusFunctions \cup StringFunctions
               \/ JsEvalArgs(n[3], <<>>) = <<JsThrown>>
            THEN JsThrown
            ELSE CallBuiltin(n[2], JsEvalArgs(n[3], <<>>))
      [] OTHER -> JsThrown

\* the value of a parsed text; a text that does not parse throws a SyntaxError
EvalParsed(p) == IF p.ok /\ p.rest = <<>> THEN JsEval(p.ast) ELSE JsThrown

\* eval(text)
Eval(text) == EvalParsed(Parse("or", <<>>, NoWs(text)))

\* an evaluator without the try / catch around eval
EvalUncaught(text) ==
    [raised |-> Eval(text) = JsThrown,
     result |-> IF Eval(text) = JsThrown THEN TRUE ELSE Truthy(Eval(text))]

\* try { return Boolean(eval(resolvedCondition)) } catch { return false }
EvalCaught(text) ==
    [raised |-> FALSE, result |-> IF Eval(text) = JsThrown THEN FALSE ELSE Truthy(Eval(text))]

-----------------------------------------------------------------------------
(* evaluateJobCondition and evaluateStepCondition (job.ts)                 *)

IsDelimiter(t) == t[1] = "ws" \/ t \in {Op("=="), Op("!="), Op(">"), Op("<")}

\* one match of /<root>\.([^.]+)\.outputs\.([^.]+?)(?:\s|$|==|!=|>|<|>=|<=)/ starting
\* at i: [ok, last, a, b]; last = index of the last token of the match
OutputRefAt(e, root, i) ==
    LET ds == {d \in (i + 3)..Len(e) :
                  /\ e[d] = Dot /\ \A k \in (i + 2)..(d - 1) : e[k] # Dot
                  /\ d + 3 <= Len(e) /\ e[d + 1] = Id("outputs") /\ e[d + 2] = Dot}
        d  == CHOOSE x \in ds : TRUE
        ms == {m \in (d + 3)..Len(e) :
                  /\ \A k \in (d + 3)..m : e[k] # Dot
                  /\ (m = Len(e) \/ IsDelimiter(e[m + 1]))}
        m  == CHOOSE x \in ms : \A y \in ms : x <= y
    IN  IF e[i] = Id(root) /\ i + 1 <= Len(e) /\ e[i + 1] = Dot /\ ds # {} /\ ms # {}
        THEN [ok |-> TRUE, last |-> IF m = Len(e) THEN m ELSE m + 1,
              a |-> Text(SubSeq(e, i + 2, d - 1)), b |-> Text(SubSeq(e, d + 3, m))]
        ELSE [ok |-> FALSE, last |-> 0, a |-> "", b |-> ""]

\* String.prototype.match with the g flag: the matches left to right, not overlapping
RECURSIVE OutputRefMatches(_, _, _)
OutputRefMatches(e, root, from) ==
    LET hits == {i \in from..Len(e) : OutputRefAt(e, root, i).ok}
    IN  IF hits = {} THEN <<>>
        ELSE LET i == CHOOSE x \in hits : \A y \in hits : x <= y
                 m == OutputRefAt(e, root, i)
             IN  <<[text |-> SubSeq(e, i, m.last), a |-> m.a, b |-> m.b]>>
                 \o OutputRefMatches(e, root, m.last + 1)

\* /needs\.([^.]+)\.result/g : the matched texts
RECURSIVE NeedsResultMatches(_, _)
NeedsResultMatches(e, from) ==
    LET at(i) == {d \in (i + 3)..Len(e) :
                     /\ e[d] = Dot /\ \A k \in (i + 2)..(d - 1) : e[k] # Dot
                     /\ d + 1 <= Len(e) /\ e[d + 1] = Id("result")}
        hits == {i \in from..Len(e) :
                    e[i] = Id("needs") /\ i + 1 <= Len(e) /\ e[i + 1] = Dot /\ at(i) # {}}
    IN  IF hits = {} THEN <<>>
        ELSE LET i == CHOOSE x \in hits : \A y \in hits : x <= y
                 d == CHOOSE x \in at(i) : TRUE
             IN  <<SubSeq(e, i, d + 1)>> \o NeedsResultMatches(e, d + 2)

\* the loop over the output references: [missing, text]
RECURSIVE ReplaceOutputRefs(_, _, _)
ReplaceOutputRefs(ms, text, lookup) ==
    IF ms = <<>> THEN [missing |-> FALSE, text |-> text]
    ELSE IF <<Head(ms).a, Head(ms).b>> \in DOMAIN lookup
    THEN ReplaceOutputRefs(Tail(ms),
            ReplaceFirst(text, Head(ms).text, <<Str(lookup[<<Head(ms).a, Head(ms).b>>])>>), lookup)
    ELSE [missing |-> TRUE, text |-> text]

\* a lookup that finds no stored output
JobOutputLookupNone(jo) == EmptyMap

\* the stored outputs as one map <<a, b>> -> value
JobOutputLookup(jo) ==
    [p \in {<<j, n>> \in UNION {{<<j, n>> : n \in DOMAIN jo[j]} : j \in DOMAIN jo} : TRUE} |->
        jo[p[1]][p[2]]]

StepOutputLookup(so, jobName) ==
    IF jobName \in DOMAIN so THEN JobOutputLookup(so[jobName]) ELSE EmptyMap

RECURSIVE ReplaceNeedsResults(_, _)

\* an evaluator that gives needs.<job>.result the status the run has recorded for job
ReplaceNeedsResultsTracking(ms, text) ==
    IF ms = <<>> THEN text
    ELSE ReplaceNeedsResults(Tail(ms),
            ReplaceFirst(text, Head(ms),
                <<Str(IF \E i \in DOMAIN executionResults :
                            /\ executionResults[i].job = Head(ms)[3][2]
                            /\ executionResults[i].status = "success"
                      THEN "success" ELSE "skipped")>>))

ReplaceNeedsResults(ms, text) ==
    IF ms = <<>> THEN text
    ELSE ReplaceNeedsResults(Tail(ms), ReplaceFirst(text, Head(ms), <<Str("success")>>))

WordIds == {"always", "success", "failure", "cancelled", "startsWith", "endsWith",
            "contains", "fromJSON", "format", "hashFiles"}

\* /^(\w+)\((.*)\)$/
IsFunctionCall(e) ==
    Len(e) >= 3 /\ e[1][1] = "id" /\ e[1][2] \in WordIds /\ e[2] = LP /\ e[Len(e)] = RP

\* first pass over the extracted expressions: calls are unwrapped, the rest resolved
RECURSIVE ResolveFirstPass(_, _, _)
ResolveFirstPass(es, t, env) ==
    IF es = <<>> THEN t
    ELSE IF IsFunctionCall(Head(es))
    THEN ResolveFirstPass(Tail(es),
                          [t EXCEPT !.text = ReplaceFirst(@, Wrap(Head(es)), Head(es))], env)
    ELSE ResolveFirstPass(Tail(es),
                          Substitute(t, Head(es), resolveGitHubExpression(Head(es), env, t.r), TRUE),
                          env)

\* every expression of es resolved and substituted (the second pass over a condition,
\* the expressions of a job env value)
RECURSIVE ResolveExpressions(_, _, _, _)
ResolveExpressions(es, t, env, quoted) ==
    IF es = <<>> THEN t
    ELSE ResolveExpressions(Tail(es),
                            Substitute(t, Head(es), resolveGitHubExpression(Head(es), env, t.r),
                                       quoted),
                            env, quoted)

\* /\bgithub\.\w+(?:\.[\w]+)*/g : the matched references, left to right
RECURSIVE DirectGitHubRefs(_, _)
DirectGitHubRefs(e, from) ==
    LET hits == {i \in from..(Len(e) - 2) :
                    e[i] = Id("github") /\ e[i + 1] = Dot /\ e[i + 2][1] = "id"}
    IN  IF hits = {} THEN <<>>
        ELSE LET i == CHOOSE x \in hits : \A y \in hits : x <= y
                 ends == {m \in (i + 2)..Len(e) :
                             /\ (m - i) % 2 = 0
                             /\ \A k \in (i + 1)..m :
                                   IF (k - i) % 2 = 1 THEN e[k] = Dot ELSE e[k][1] = "id"}
                 m == CHOOSE x \in ends : \A y \in ends : y <= x
             IN  <<SubSeq(e, i, m)>> \o DirectGitHubRefs(e, m + 1)

\* String.prototype.replace with a global regular expression: every occurrence
RECURSIVE ReplaceAll(_, _, _)
ReplaceAll(s, p, r) ==
    LET i == IndexOf(s, p)
    IN  IF i = 0 THEN s
        ELSE SubSeq(s, 1, i - 1) \o r \o ReplaceAll(SubSeq(s, i + Len(p), Len(s)), p, r)

\* resolved.replace(new RegExp('\\b' + ref + '\\b', 'g'), `"${value}"`)
SubstituteRef(t, ref, x) == [text |-> ReplaceAll(t.text, ref, <<Str(x.v)>>), r |-> x.r]

RECURSIVE ResolveDirectRefs(_, _, _)
ResolveDirectRefs(refs, t, env) ==
    IF refs = <<>> THEN t
    ELSE IF Includes(t.text, <<Str(Text(Head(refs)))>>)
    THEN ResolveDirectRefs(Tail(refs), t, env)
    ELSE ResolveDirectRefs(Tail(refs),
                           SubstituteRef(t, Head(refs),
                                         resolveGitHubExpression(Head(refs), env, t.r)),
                           env)

\* what an evaluator returns for the rewritten condition t, with the context it leaves
Verdict(t) ==
    [result |-> EvalCaught(t.text).result, raised |-> EvalCaught(t.text).raised,
     r |-> t.r, text |-> t.text]

\* job.ts 46-118 and 151-223: what both evaluators do after their own replacements
EvaluateResolved(t, env) ==
    LET p1 == ResolveFirstPass(extractGitHubExpressions(t.text), t, env)
        p2 == ResolveExpressions(extractGitHubExpressions(p1.text), p1, env, TRUE)
    IN  Verdict(ResolveDirectRefs(DirectGitHubRefs(p2.text, 1), p2, env))

\* a runJobInstance that does not look at the if of the job
evaluateJobConditionIgnored(condition, env, r) ==
    [result |-> TRUE, raised |-> FALSE, r |-> r, text |-> <<>>]

evaluateJobCondition(condition, env, r) ==
    IF condition = <<>> THEN [result |-> TRUE, raised |-> FALSE, r |-> r, text |-> <<>>]
    ELSE LET o == ReplaceOutputRefs(OutputRefMatches(condition, "needs", 1), condition,
                                    JobOutputLookup(r.jo))
         IN  IF o.missing THEN [result |-> FALSE, raised |-> FALSE, r |-> r, text |-> o.text]
             ELSE EvaluateResolved(
                     [text |-> ReplaceNeedsResults(NeedsResultMatches(condition, 1), o.text),
                      r |-> r], env)

evaluateStepCondition(condition, env, jobName, r) ==
    IF condition = <<>> THEN [result |-> TRUE, raised |-> FALSE, r |-> r, text |-> <<>>]
    ELSE LET o == ReplaceOutputRefs(OutputRefMatches(condition, "steps", 1), condition,
                                    StepOutputLookup(r.so, jobName))
         IN  IF o.missing THEN [result |-> FALSE, raised |-> FALSE, r |-> r, text |-> o.text]
             ELSE EvaluateResolved([text |-> o.text, r |-> r], env)

-----------------------------------------------------------------------------
(* Matrix expansion (runWorkflow, the matrix branch of the main loop).     *)
(* A matrix is the list of its axes in declaration order; an axis is       *)
(* [key, kind, items, text, expr]: kind "list" (an array, items), "scalar" *)
(* (one value, text) or "expr" (a string holding ${{ ... }}).  A value of  *)
(* resolvedMatrix is [arr, items, text]: an array of items, or the one     *)
(* value text.                                                             *)

\* resolvedMatrix[key] for the text v an expression resolved to: JSON.parse(v), or v
\* itself when it is no JSON
AxisValues(v) == [arr |-> JsonParse(v).ok /\ JsonParse(v).arr,
                  items |-> JsonParse(v).items, text |-> JsonParse(v).text]

\* m = [rm, r] after resolvedMatrix[key] = value
WithAxis(m, key, value, r) ==
    [rm |-> Append(m.rm, [key |-> key, value |-> value]), r |-> r]

\* ... where the axis is an expression the resolver returned x for
WithResolvedAxis(m, key, x) == WithAxis(m, key, AxisValues(x.v), x.r)

\* the loop "for (const key of matrixKeys)", m being what it has built so far
RECURSIVE resolveMatrix(_, _, _)
resolveMatrix(matrix, env, m) ==
    IF matrix = <<>> THEN m
    ELSE resolveMatrix(Tail(matrix), env,
            IF Head(matrix).kind = "expr"
            THEN WithResolvedAxis(m, Head(matrix).key,
                                  resolveGitHubExpression(Head(matrix).expr, env, m.r))
            ELSE WithAxis(m, Head(matrix).key,
                          [arr |-> Head(matrix).kind = "list", items |-> Head(matrix).items,
                           text |-> Head(matrix).text], m.r))

RECURSIVE generateCombinations(_, _, _), ForValues(_, _, _, _)

\* an expansion that takes the first value of every axis only
ForFirstValue(rm, index, current, values) ==
    IF values = <<>> THEN <<>>
    ELSE generateCombinations(rm, index + 1, (rm[index].key :> Head(values)) @@ current)

\* the for loop over the values of the axis at index
ForValues(rm, index, current, values) ==
    IF values = <<>> THEN <<>>
    ELSE generateCombinations(rm, index + 1, (rm[index].key :> Head(values)) @@ current)
         \o ForValues(rm, index, current, Tail(values))

\* the binding sets pushed to matrixValues, in the order they are pushed
generateCombinations(rm, index, current) ==
    IF index = Len(rm) + 1 THEN <<current>>
    ELSE ForValues(rm, index, current,
                   IF rm[index].value.arr THEN rm[index].value.items
                   ELSE <<rm[index].value.text>>)

NoBindings == EmptyMap

\* the arguments runJobInstance is called with, one per instance
NoMatrixValue == [has |-> FALSE, b |-> NoBindings]

\* the binding sets of the resolved matrix m, as runJobInstance is given them
MatrixInstances(m) ==
    LET c == generateCombinations(m.rm, 1, NoBindings)
    IN  [values |-> [i \in 1..Len(c) |-> [has |-> TRUE, b |-> c[i]]], r |-> m.r]

InstancesOf(job, env, r) ==
    IF job.hasMatrix
    THEN MatrixInstances(resolveMatrix(job.matrix, env, [rm |-> <<>>, r |-> r]))
    ELSE [values |-> <<NoMatrixValue>>, r |-> r]

-----------------------------------------------------------------------------
(* runWorkflow: the state of a run                                         *)

\* the WorkflowContext of the current state, with the answers the user will give
Ctx(script) ==
    [rv |-> resolvedVariables, jo |-> jobOutputs, so |-> stepOutputs, ans |-> script,
     asked |-> hist.asked, calls |-> hist.calls]

\* askUserConfirmation was called
Confirmed(r, kind, key) == [r EXCEPT !.asked = Append(@, <<kind, key>>)]

\* executionResults.push(jobResult)
PushJob(er, name, i) ==
    Append(er, [job |-> name, mi |-> i, status |-> "success", steps |-> <<>>])

\* jobResult.status = st, for the instance being run
SetJob(er, st) == [er EXCEPT ![Len(er)].status = st]

\* jobResult.steps.push(stepResult)
PushStep(er, id) ==
    [er EXCEPT ![Len(er)].steps = Append(@, [id |-> id, status |-> "success"])]

\* stepResult.status = st, for the step being run
SetStep(er, st) ==
    [er EXCEPT ![Len(er)].steps = [@ EXCEPT ![Len(@)].status = st]]

NeedsOf(job) == {job.needs.js[i] : i \in DOMAIN job.needs.js}

\* a scheduler that starts a job as soon as one of the jobs it needs has completed
areDependenciesMetByAny(job, done) ==
    IF job.needs.k = "none" THEN TRUE
    ELSE LET needs == job.needs.js
         IN  \E i \in DOMAIN needs : needs[i] \in done

areDependenciesMet(job, done) ==
    IF job.needs.k = "none" THEN TRUE
    ELSE LET needs == job.needs.js
         IN  \A i \in DOMAIN needs : needs[i] \in done

\* a scheduler that counts a job as completed only when none of its instances has failed
\* or been skipped
completedJobsAddIfSucceeded(done, jobName) ==
    IF \E i \in DOMAIN executionResults :
          executionResults[i].job = jobName /\ executionResults[i].status # "success"
    THEN done ELSE done \cup {jobName}

\* a scheduler that remembers only the job completed last
completedJobsLast(done, jobName) == {jobName}

\* completedJobs.add(jobName)
completedJobsAdd(done, jobName) == done \cup {jobName}

\* the four spellings of ${{ matrix.k }} with at most one blank on each side
MatrixPatterns(k) ==
    <<<<OpenB, Ws, Id("matrix"), Dot, Id(k), Ws, CloseB>>,
      <<OpenB, Id("matrix"), Dot, Id(k), Ws, CloseB>>,
      <<OpenB, Ws, Id("matrix"), Dot, Id(k), CloseB>>,
      <<OpenB, Id("matrix"), Dot, Id(k), CloseB>>>>

RECURSIVE ReplacePatterns(_, _, _)
ReplacePatterns(text, ps, v) ==
    IF ps = <<>> THEN text
    ELSE ReplacePatterns(ReplaceAll(text, Head(ps), <<Raw(v)>>), Tail(ps), v)

\* for (const [matrixKey, matrixVal] of Object.entries(matrixValue))
RECURSIVE SubstMatrix(_, _, _)
SubstMatrix(text, keys, b) ==
    IF keys = <<>> THEN text
    ELSE SubstMatrix(ReplacePatterns(text, MatrixPatterns(Head(keys)),
                                     String(b[Head(keys)])),
                     Tail(keys), b)

\* acc = [vars, r] after jobEnvVars[key] = the resolved text of t
WithEnvVar(acc, key, t) == [vars |-> (key :> Text(t.text)) @@ acc.vars, r |-> t.r]

\* jobEnvVars: [vars, r]; entries is job.env as the list of its [key, value]
RECURSIVE resolveJobEnv(_, _, _, _, _)
resolveJobEnv(entries, keys, matrixValue, env, acc) ==
    IF entries = <<>> THEN acc
    ELSE LET t0 == IF matrixValue.has
                   THEN SubstMatrix(Head(entries).value, keys, matrixValue.b)
                   ELSE Head(entries).value
         IN  resolveJobEnv(Tail(entries), keys, matrixValue, env,
                 WithEnvVar(acc, Head(entries).key,
                            ResolveExpressions(extractGitHubExpressions(t0),
                                               [text |-> t0, r |-> acc.r], env, FALSE)))

\* a context in which the first value recorded for an output of a job stays
WithJobOutputOnce(jobName, name, x) ==
    IF JoHas(x.r.jo, jobName, name) THEN x.r
    ELSE [x.r EXCEPT !.jo =
            (jobName :> ((name :> x.v)
                         @@ (IF jobName \in DOMAIN @ THEN @[jobName] ELSE EmptyMap))) @@ @]

\* the context after context.jobOutputs.get(jobName).set(name, x.v)
WithJobOutput(jobName, name, x) ==
    [x.r EXCEPT !.jo =
        (jobName :> ((name :> x.v)
                     @@ (IF jobName \in DOMAIN @ THEN @[jobName] ELSE EmptyMap))) @@ @]

\* a loop that stops after the first entry of job.outputs
resolveJobOutputsFirstOnly(outs, jobName, env, r) ==
    IF outs = <<>> THEN r
    ELSE WithJobOutput(jobName, Head(outs).name,
                       resolveJobOutputExpression(Head(outs).expr, jobName, env, r))

\* the loop over Object.entries(job.outputs): the context after it
RECURSIVE resolveJobOutputs(_, _, _, _)
resolveJobOutputs(outs, jobName, env, r) ==
    IF outs = <<>> THEN r
    ELSE resolveJobOutputs(Tail(outs), jobName, env,
            WithJobOutput(jobName, Head(outs).name,
                          resolveJobOutputExpression(Head(outs).expr, jobName, env, r)))

(* The GITHUB_OUTPUT file of a command is the list of its lines, a line being *)
(* tokens in which = is a token of its own.                                 *)
Eq == <<"=", "=">>

\* the outputs that are written with blanks and other lines around them
PaddedOutputs == ("key" :> "a=b")

PaddedFile ==
    <<<<Raw("noise")>>,
      <<Ws, Raw("key"), Ws, Eq, Ws, Raw("a"), Eq, Raw("b"), Ws>>,
      <<Ws>>>>

\* echo "<k>=<outs[k]>" >> $GITHUB_OUTPUT for every k of keys
RECURSIVE OutputLines(_, _)
OutputLines(outs, keys) ==
    IF keys = {} THEN <<>>
    ELSE <<<<Raw(CHOOSE k \in keys : TRUE), Eq, Raw(outs[CHOOSE k \in keys : TRUE])>>>>
         \o OutputLines(outs, keys \ {CHOOSE k \in keys : TRUE})

\* the file a command leaves when it publishes outs
FileOf(outs) == IF outs = PaddedOutputs THEN PaddedFile ELSE OutputLines(outs, DOMAIN outs)

\* readGitHubOutputs on the lines of the file: a line is trimmed, taken if it holds
\* an =, and split at the first one; a later line wins over an earlier one
RECURSIVE readGitHubOutputs(_)
readGitHubOutputs(lines) ==
    IF lines = <<>> THEN EmptyMap
    ELSE LET line == Trim(lines[Len(lines)])
             i == IndexOf(line, <<Eq>>)
             rest == readGitHubOutputs(SubSeq(lines, 1, Len(lines) - 1))
         IN  IF line # <<>> /\ i # 0
             THEN (Text(Trim(SubSeq(line, 1, i - 1)))
                      :> Text(Trim(SubSeq(line, i + 1, Len(line))))) @@ rest
             ELSE rest

\* a step loop that reads no output file
StoreNoStepOutputs(so, jobName, stepId, outs) == so

\* context.stepOutputs after the outputs of the GITHUB_OUTPUT file are stored
StoreStepOutputs(so, jobName, stepId, outs) ==
    IF DOMAIN outs = {} THEN so
    ELSE LET j == IF jobName \in DOMAIN so THEN so[jobName] ELSE EmptyMap
             t == IF stepId \in DOMAIN j THEN j[stepId] ELSE EmptyMap
         IN  (jobName :> ((stepId :> (outs @@ t)) @@ j)) @@ so

IsTerraformSetup(uses) == uses = "hashicorp/setup-terraform@v3"
IsCheckout(uses) == uses = "actions/checkout@v4"

\* A path is text in which the separator is a token of its own.
Sep == <<"/", "/">>

\* the workingDir runWorkflow is given: the root of the repository
workingDir == <<Sep, Raw("repo")>>

\* path.resolve(base, p) for a path p without . and .. segments
pathResolve(base, p) == IF Head(p) = Sep THEN p ELSE base \o <<Sep>> \o p

\* a string in a condition position: the empty string and undefined are falsy
IsSet(dir) == Text(dir) # ""

\* a choice of directory that takes the innermost setting last
stepWorkingDirOutermostFirst(resolvedStepWorkingDir, jobWorkingDir, workflowDir) ==
    IF IsSet(workflowDir) THEN pathResolve(workingDir, workflowDir)
    ELSE IF IsSet(jobWorkingDir) THEN pathResolve(workingDir, jobWorkingDir)
    ELSE IF IsSet(resolvedStepWorkingDir) THEN pathResolve(workingDir, resolvedStepWorkingDir)
    ELSE workingDir

\* const stepWorkingDir = resolvedStepWorkingDir ? ... : jobWorkingDir ? ... : ...
stepWorkingDirOf(resolvedStepWorkingDir, jobWorkingDir, workflowDir) ==
    IF IsSet(resolvedStepWorkingDir) THEN pathResolve(workingDir, resolvedStepWorkingDir)
    ELSE IF IsSet(jobWorkingDir) THEN pathResolve(workingDir, jobWorkingDir)
    ELSE IF IsSet(workflowDir) THEN pathResolve(workingDir, workflowDir)
    ELSE workingDir

\* process defaults of the environment of a command (GITHUB_ENV_VARS)
GITHUB_ENV_VARS == ("CI" :> "true") @@ ("GITHUB_ACTIONS" :> "true")

\* the envVars object built for executeCommand, without the GITHUB_OUTPUT entry
envVarsOf(jobEnvVars) == jobEnvVars @@ GITHUB_ENV_VARS

-----------------------------------------------------------------------------
(* The workflows a run is checked on.  A job is [name, needs, if,          *)
(* hasMatrix, matrix, env, steps, outputs]; needs is [k, js] with k one of *)
(* "none", "one" (a single name) and "list"; a step is [id, if, run, uses, *)
(* version, outs], outs being the GITHUB_OUTPUT contents its command may   *)
(* leave.  An absent if / run / version is the empty text.  wd is the       *)
(* working-directory of a step, of a job's defaults.run or of the          *)
(* workflow's; env of a step is the list of its [key, value].              *)

NoNeeds   == [k |-> "none", js |-> <<>>]
One(j)    == [k |-> "one", js |-> <<j>>]
Many(js)  == [k |-> "list", js |-> js]

NoOutputs == EmptyMap

RunStepOf(id, cond, run, outs) ==
    [id |-> id, if |-> cond, run |-> run, uses |-> "", version |-> <<>>, outs |-> outs,
     wd |-> <<>>, env |-> <<>>]

UsesStepOf(id, uses, version) ==
    [id |-> id, if |-> <<>>, run |-> <<>>, uses |-> uses, version |-> version,
     outs |-> {NoOutputs}, wd |-> <<>>, env |-> <<>>]

JobOf(name, needs, cond, steps) ==
    [name |-> name, needs |-> needs, if |-> cond, hasMatrix |-> FALSE, matrix |-> <<>>,
     env |-> <<>>, steps |-> steps, outputs |-> <<>>, wd |-> <<>>]

MatrixJobOf(name, needs, matrix, env, steps, outputs) ==
    [name |-> name, needs |-> needs, if |-> <<>>, hasMatrix |-> TRUE, matrix |-> matrix,
     env |-> env, steps |-> steps, outputs |-> outputs, wd |-> <<>>]

Call0(name) == <<Id(name), LP, RP>>

\* needs.<j>.result == "success"
NeedsResultIsSuccess(j) ==
    Dotted(<<"needs", j, "result">>) \o <<Ws, Op("=="), Ws, Str("success")>>

Cmd(word) == <<Raw(word)>>

\* C needs [A, B], B needs A, declared in the order C, B, A
WChain ==
    [env |-> EmptyMap, wd |-> <<>>,
     jobs |-> <<
        JobOf("C", Many(<<"A", "B">>), NeedsResultIsSuccess("A"),
              <<RunStepOf("test", Call0("always"), Cmd("test"), {NoOutputs}),
                RunStepOf("cleanup", Call0("cancelled"), Cmd("cleanup"), {NoOutputs})>>),
        JobOf("B", One("A"), Call0("failure"),
              <<RunStepOf("notify", <<>>, Cmd("notify"), {NoOutputs})>>),
        JobOf("A", NoNeeds, <<>>,
              <<RunStepOf("build", Call0("success"), Cmd("build"), {NoOutputs})>>)>>]

\* D tests the result of a job that is declared after it and that it does not need
WEarly ==
    [env |-> EmptyMap, wd |-> <<>>,
     jobs |-> <<
        JobOf("D", NoNeeds, NeedsResultIsSuccess("A"),
              <<RunStepOf("report", <<>>, Cmd("report"), {NoOutputs})>>),
        JobOf("A", NoNeeds, <<>>,
              <<RunStepOf("build", <<>>, Cmd("build"), {NoOutputs}),
                RunStepOf("onfail", Call0("failure"), Cmd("onfail"), {NoOutputs})>>)>>]

FilesJson == "[\"b\"]"

\* M runs once per x and publishes o
WMatrix ==
    [env |-> ("REGION" :> "eu"), wd |-> <<>>,
     jobs |-> <<
        MatrixJobOf("M", NoNeeds,
              <<[key |-> "x", kind |-> "list", items |-> <<"a", "b">>, text |-> "",
                 expr |-> <<>>]>>,
              <<[key |-> "TARGET",
                 value |-> Wrap(Dotted(<<"matrix", "x">>)) \o <<Raw("-")>>
                           \o Wrap(Dotted(<<"env", "REGION">>))]>>,
              <<RunStepOf("s", <<>>, <<Raw("echo"), Ws>> \o Wrap(Dotted(<<"matrix", "x">>)),
                          {NoOutputs, ("v" :> FilesJson)})>>,
              <<[name |-> "o", expr |-> Wrap(Dotted(<<"steps", "s", "outputs", "v">>))]>>)>>]

\* A publishes o; N needs A and runs once per file of o
WOutputs ==
    [env |-> EmptyMap, wd |-> <<>>,
     jobs |-> <<
        [JobOf("A", NoNeeds, <<>>,
               <<RunStepOf("s", <<>>, Cmd("list"), {NoOutputs, ("v" :> FilesJson)})>>)
           EXCEPT !.outputs =
              <<[name |-> "o", expr |-> Wrap(Dotted(<<"steps", "s", "outputs", "v">>))]>>],
        MatrixJobOf("N", One("A"),
              <<[key |-> "file", kind |-> "expr", items |-> <<>>, text |-> "",
                 expr |-> Wrap(<<Id("fromJSON"), LP>> \o Dotted(<<"needs", "A", "outputs", "o">>)
                               \o <<RP>>)]>>,
              <<>>,
              <<RunStepOf("use", <<>>, <<Raw("use"), Ws>> \o Wrap(Dotted(<<"matrix", "file">>)),
                          {NoOutputs})>>,
              <<>>)>>]

\* P and Q need each other; R needs nothing
WCycle ==
    [env |-> EmptyMap, wd |-> <<>>,
     jobs |-> <<
        JobOf("P", One("Q"), <<>>, <<RunStepOf("p", <<>>, Cmd("p"), {NoOutputs})>>),
        JobOf("Q", Many(<<"P">>), <<>>, <<RunStepOf("q", <<>>, Cmd("q"), {NoOutputs})>>),
        JobOf("R", NoNeeds, <<>>, <<RunStepOf("r", <<>>, Cmd("r"), {NoOutputs})>>)>>]

\* the kinds of step that run no command
WUses ==
    [env |-> EmptyMap, wd |-> <<>>,
     jobs |-> <<
        JobOf("U", NoNeeds, <<>>,
              <<UsesStepOf("checkout", "actions/checkout@v4", <<>>),
                UsesStepOf("terraform", "hashicorp/setup-terraform@v3",
                           <<Raw("v"), Raw("1"), Raw("."), Raw("5")>>),
                [UsesStepOf("mock", "tj-actions/changed-files@v41", <<>>)
                    EXCEPT !.outs = {NoOutputs, ("files" :> "a.txt"), ("cfg" :> EntryApp)}],
                UsesStepOf("placeholder", "", <<>>)>>)>>]

\* I runs once per entry of an include list, in a directory named after the entry
WInclude ==
    [env |-> EmptyMap, wd |-> <<>>,
     jobs |-> <<
        [MatrixJobOf("I", NoNeeds,
              <<[key |-> "include", kind |-> "list", items |-> <<EntryTerraform, EntryApp>>,
                 text |-> "", expr |-> <<>>]>>,
              <<>>,
              <<RunStepOf("s", <<>>,
                          <<Raw("echo"), Ws>> \o Wrap(Dotted(<<"matrix", "region">>)),
                          {NoOutputs})>>,
              <<>>)
           EXCEPT !.wd = <<Raw("tf"), Sep>> \o Wrap(Dotted(<<"matrix", "directory">>))]>>]

Dir(name) == <<Raw(name)>>

\* one step, with the working directories given at the three levels
WDirsOf(stepDir, jobDir, workflowDir) ==
    [env |-> EmptyMap, wd |-> workflowDir,
     jobs |-> <<
        [JobOf("W", NoNeeds, <<>>,
               <<[RunStepOf("s", <<>>, Cmd("pwd"), {NoOutputs}) EXCEPT !.wd = stepDir]>>)
           EXCEPT !.wd = jobDir]>>]

\* a directory is absent, a name, or (for a step) an input of the user's
StepDirs == {<<>>, Dir("sdir"), Wrap(Dotted(<<"inputs", "dir">>))}
JobDirs == {<<>>, Dir("jdir")}
WorkflowDirs == {<<>>, Dir("wdir")}

WDirs == {WDirsOf(s, j, w) : s \in StepDirs, j \in JobDirs, w \in WorkflowDirs}

\* the env of the step repeats a key of the env of the job, which repeats a default
WEnv ==
    [env |-> EmptyMap, wd |-> <<>>,
     jobs |-> <<
        [JobOf("E", NoNeeds, <<>>,
               <<[RunStepOf("s", <<>>, Cmd("deploy"), {NoOutputs})
                    EXCEPT !.env = <<[key |-> "STAGE", value |-> <<Raw("step")>>],
                                     [key |-> "BRANCH",
                                      value |-> Wrap(Dotted(<<"github", "ref_name">>))]>>]>>)
           EXCEPT !.env = <<[key |-> "CI", value |-> <<Raw("job")>>],
                            [key |-> "STAGE", value |-> <<Raw("job")>>]>>]>>]

\* the second step uses what the first one may leave in its output file
WSteps ==
    [env |-> EmptyMap, wd |-> <<>>,
     jobs |-> <<
        JobOf("J", NoNeeds, <<>>,
              <<RunStepOf("S", <<>>, Cmd("produce"),
                          {NoOutputs, ("key" :> "value"), PaddedOutputs}),
                RunStepOf("use", <<>>,
                          <<Raw("echo"), Ws>>
                             \o Wrap(Dotted(<<"steps", "S", "outputs", "key">>)),
                          {NoOutputs})>>)>>]

\* S needs itself, T needs a name that is no job; R needs nothing and publishes o and p
WStuck ==
    [env |-> EmptyMap, wd |-> <<>>,
     jobs |-> <<
        JobOf("S", One("S"), <<>>, <<RunStepOf("s", <<>>, Cmd("s"), {NoOutputs})>>),
        [JobOf("R", NoNeeds, <<>>,
               <<RunStepOf("r", <<>>, Cmd("r"), {NoOutputs, ("v" :> "x")})>>)
           EXCEPT !.outputs =
              <<[name |-> "o", expr |-> Wrap(Dotted(<<"steps", "r", "outputs", "v">>))],
                [name |-> "p", expr |-> Wrap(Dotted(<<"steps", "r", "outputs", "w">>))]>>],
        JobOf("T", Many(<<"ghost">>), <<>>,
              <<RunStepOf("t", <<>>, Cmd("t"), {NoOutputs})>>)>>]

\* K is skipped by its if; its env, its command and its output hold expressions;
\* L needs K
WSkipped ==
    [env |-> EmptyMap, wd |-> <<>>,
     jobs |-> <<
        JobOf("F", NoNeeds, <<>>, <<RunStepOf("f", <<>>, Cmd("f"), {NoOutputs})>>),
        [JobOf("K", NoNeeds, Call0("failure"),
               <<RunStepOf("k", <<>>,
                           <<Raw("echo"), Ws>> \o Wrap(Dotted(<<"inputs", "y">>)),
                           {NoOutputs})>>)
           EXCEPT !.env = <<[key |-> "X", value |-> Wrap(Dotted(<<"inputs", "x">>))]>>,
                  !.outputs =
              <<[name |-> "o", expr |-> Wrap(Dotted(<<"steps", "k", "outputs", "v">>))]>>],
        JobOf("L", One("K"), <<>>, <<RunStepOf("l", <<>>, Cmd("l"), {NoOutputs})>>)>>]

\* A publishes a list, which may be empty; N needs A and runs once per file of it;
\* Z needs N; declared in the order Z, N, A
WEmpty ==
    [env |-> EmptyMap, wd |-> <<>>,
     jobs |-> <<
        JobOf("Z", One("N"), <<>>, <<RunStepOf("z", <<>>, Cmd("z"), {NoOutputs})>>),
        MatrixJobOf("N", One("A"),
              <<[key |-> "file", kind |-> "expr", items |-> <<>>, text |-> "",
                 expr |-> Wrap(<<Id("fromJSON"), LP>> \o Dotted(<<"needs", "A", "outputs", "o">>)
                               \o <<RP>>)]>>,
              <<>>,
              <<RunStepOf("use", <<>>, <<Raw("use"), Ws>> \o Wrap(Dotted(<<"matrix", "file">>)),
                          {NoOutputs})>>,
              <<>>),
        [JobOf("A", NoNeeds, <<>>,
               <<RunStepOf("s", <<>>, Cmd("list"),
                           {("v" :> "[]"), ("v" :> "[\"a\",\"b\"]")})>>)
           EXCEPT !.outputs =
              <<[name |-> "o", expr |-> Wrap(Dotted(<<"steps", "s", "outputs", "v">>))]>>]>>]

Workflows ==
    {WChain, WEarly, WMatrix, WOutputs, WCycle, WUses, WInclude, WEnv, WSteps, WStuck,
     WSkipped, WEmpty}
    \cup WDirs

Confirmations == {"yes", "no", "all", "quit", "skip"}

\* what the user may type at a free-text prompt: nothing but Enter is the empty script
FreeText == {"u1", " "}

MaxAnswers == 1

Scripts == UNION {[1..n -> FreeText] : n \in 0..MaxAnswers}

NoHistory ==
    [asked |-> <<>>, calls |-> {}, exec |-> <<>>, quits |-> {}, afterQuit |-> {},
     conds |-> {}, tools |-> {}, files |-> {}, alls |-> {}, declined |-> {},
     failures |-> {}, passStart |-> {}, written |-> <<>>, summary |-> <<>>,
     passes |-> 0]

NoCall == [done |-> FALSE]

NoLocals == [env |-> EmptyMap, cmd |-> "", jobWorkingDir |-> <<>>]

-----------------------------------------------------------------------------
(* runWorkflow: one action per stretch of code between two awaits on an    *)
(* answer of the user or on the child process.                             *)

Init ==
    /\ mode = "run"
    /\ wf \in Workflows
    /\ isDryRun \in BOOLEAN
    /\ pc = "start"
    /\ passIdx = 1
    /\ anyJobRun = FALSE
    /\ completedJobs = {}
    /\ matrixValues = <<>>
    /\ mi = 0
    /\ si = 0
    /\ runAllJobsMode = FALSE
    /\ runAllCommandsMode = FALSE
    /\ resolvedVariables = EmptyMap
    /\ stepOutputs = EmptyMap
    /\ jobOutputs = EmptyMap
    /\ executionResults = <<>>
    /\ cur = NoLocals
    /\ hist = NoHistory
    /\ fn = NoCall
    /\ workflowWorkingDir = <<>>

CurJob == wf.jobs[passIdx]

CurStep == CurJob.steps[si]

MatrixKeys(job) == [i \in DOMAIN job.matrix |-> job.matrix[i].key]

\* the history after a stretch of code that left the context r
Logged(h, r) == [h EXCEPT !.asked = r.asked, !.calls = r.calls]

\* runWorkflow up to its scheduling loop: the working directory of the workflow's
\* defaults is resolved; a workflow without jobs returns at once
Begin ==
    /\ mode = "run" /\ pc = "start"
    /\ \E script \in Scripts :
       \E w \in {resolveVariablesInCommand(wf.wd, wf.env, "", Ctx(script), NoMatrixValue)} :
          /\ workflowWorkingDir' = w.text
          /\ resolvedVariables' = w.r.rv
          /\ hist' = Logged(hist, w.r)
    /\ pc' = IF Len(wf.jobs) = 0 THEN "done" ELSE "loop"
    /\ UNCHANGED <<mode, wf, isDryRun, passIdx, anyJobRun, completedJobs, matrixValues, mi,
                   si, runAllJobsMode, runAllCommandsMode, stepOutputs, jobOutputs,
                   executionResults, cur, fn>>

\* for (const jobName of jobNames): a completed job, or one whose needs are not met
ForSkip ==
    /\ mode = "run" /\ pc = "loop" /\ passIdx <= Len(wf.jobs)
    /\ CurJob.name \in completedJobs \/ ~areDependenciesMet(CurJob, completedJobs)
    /\ passIdx' = passIdx + 1
    /\ UNCHANGED <<mode, wf, isDryRun, pc, anyJobRun, completedJobs, matrixValues, mi, si,
                   runAllJobsMode, runAllCommandsMode, resolvedVariables, stepOutputs,
                   jobOutputs, executionResults, cur, hist, fn,
                   workflowWorkingDir>>

\* an eligible job: its matrix is expanded
ForJob ==
    /\ mode = "run" /\ pc = "loop" /\ passIdx <= Len(wf.jobs)
    /\ CurJob.name \notin completedJobs /\ areDependenciesMet(CurJob, completedJobs)
    /\ \E script \in Scripts :
       \E x \in {InstancesOf(CurJob, wf.env, Ctx(script))} :
              /\ matrixValues' = x.values
              /\ resolvedVariables' = x.r.rv
              /\ hist' = Logged(hist, x.r)
              /\ IF Len(x.values) = 0
                 THEN /\ completedJobs' = completedJobsAdd(completedJobs, CurJob.name)
                      /\ passIdx' = passIdx + 1
                      /\ UNCHANGED <<pc, mi>>
                 ELSE /\ pc' = "instance" /\ mi' = 1
                      /\ UNCHANGED <<completedJobs, passIdx>>
    /\ UNCHANGED <<mode, wf, isDryRun, anyJobRun, si, runAllJobsMode, runAllCommandsMode,
                   stepOutputs, jobOutputs, executionResults, cur, fn,
                   workflowWorkingDir>>

\* a scheduler that raises an error when a pass has run no job
afterPassRaising(anyRun, completed, jobCount) ==
    IF completed >= jobCount THEN "done"
    ELSE IF ~anyRun THEN "aborted"
    ELSE "loop"

\* a scheduler that goes round until every job is completed
afterPassUntilAll(anyRun, completed, jobCount) ==
    IF completed >= jobCount THEN "done" ELSE "loop"

\* where runWorkflow goes after a pass over the jobs: out of the while loop ("done")
\* when no job could run or all are completed, else into another pass
afterPass(anyRun, completed, jobCount) ==
    IF ~anyRun \/ completed >= jobCount THEN "done" ELSE "loop"

\* the summary printed after the scheduling loop: the tree of the recorded results
printExecutionSummary(h, results) == [h EXCEPT !.summary = Append(@, results)]

\* the end of the for loop: give up, go round again, or leave the while loop; after the
\* while loop the summary is printed
PassEnd ==
    /\ mode = "run" /\ pc = "loop" /\ passIdx = Len(wf.jobs) + 1
    /\ pc' = afterPass(anyJobRun, Cardinality(completedJobs), Len(wf.jobs))
    /\ IF afterPass(anyJobRun, Cardinality(completedJobs), Len(wf.jobs)) = "loop"
       THEN /\ passIdx' = 1 /\ anyJobRun' = FALSE
            /\ hist' = [hist EXCEPT !.passStart = completedJobs, !.passes = @ + 1]
       ELSE /\ hist' = printExecutionSummary([hist EXCEPT !.passes = @ + 1],
                                             executionResults)
            /\ UNCHANGED <<passIdx, anyJobRun>>
    /\ UNCHANGED <<mode, wf, isDryRun, completedJobs, matrixValues, mi, si, runAllJobsMode,
                   runAllCommandsMode, resolvedVariables, stepOutputs, jobOutputs,
                   executionResults, cur, fn,
                   workflowWorkingDir>>

\* a loop over the instances that stops after the first one
ReturnFromFirstInstance ==
    /\ anyJobRun' = TRUE
    /\ completedJobs' = completedJobsAdd(completedJobs, CurJob.name)
    /\ passIdx' = passIdx + 1 /\ pc' = "loop" /\ mi' = 0

\* runJobInstance has returned
ReturnFromInstance ==
    /\ anyJobRun' = TRUE
    /\ IF mi < Len(matrixValues)
       THEN /\ mi' = mi + 1 /\ pc' = "instance"
            /\ UNCHANGED <<completedJobs, passIdx>>
       ELSE /\ completedJobs' = completedJobsAdd(completedJobs, CurJob.name)
            /\ passIdx' = passIdx + 1 /\ pc' = "loop" /\ mi' = 0

\* a runJobInstance that treats quit at the job confirmation as it treats it at a command
\* confirmation
AfterJobConfirmationReturning(resp) ==
    IF resp \in {"no", "skip", "quit"} THEN "return" ELSE "run"

\* a runJobInstance that runs the job also when the answer is no or skip
AfterJobConfirmationRunning(resp) == IF resp = "quit" THEN "throw" ELSE "run"

\* what runJobInstance does with the answer to "Do you want to run job ...?":
\* return, throw 'Workflow execution stopped by user', or go on
AfterJobConfirmation(resp) ==
    IF resp \in {"no", "skip"} THEN "return"
    ELSE IF resp = "quit" THEN "throw"
    ELSE "run"

\* a runJobInstance that asks for every job instance, whatever was answered before
runJobResponseAlwaysAsked(runAll, ans) == [resp |-> ans, asked |-> TRUE]

\* runJobResponse: yes without a question in run-all-jobs mode, else the user's answer
runJobResponse(runAll, ans) ==
    [resp |-> IF runAll THEN "yes" ELSE ans, asked |-> ~runAll]

\* a run with one run-all mode for jobs and commands alike
modesAfterJobResponseShared(jobsMode, commandsMode, resp) ==
    [jobs |-> jobsMode \/ commandsMode \/ resp = "all",
     commands |-> jobsMode \/ commandsMode \/ resp = "all"]

\* the two modes after the answer at a job confirmation
modesAfterJobResponse(jobsMode, commandsMode, resp) ==
    [jobs |-> jobsMode \/ resp = "all", commands |-> commandsMode]

\* runJobInstance up to its step loop.  (The locals of a stretch of code are bound
\* once each, as the only element of a set.)
StartInstance ==
    /\ mode = "run" /\ pc = "instance"
    /\ \E ans \in Confirmations, script \in Scripts :
       \E j \in {runJobResponse(runAllJobsMode, ans)} :
       \E resp \in {j.resp},
          er0 \in {PushJob(executionResults, CurJob.name, mi)},
          r0 \in {IF j.asked THEN Confirmed(Ctx(script), "job", CurJob.name)
                  ELSE Ctx(script)},
          h0 \in {[hist EXCEPT !.afterQuit =
                                   IF hist.quits # {} THEN @ \cup {"instance"} ELSE @,
                               !.quits =
                                   IF j.asked /\ j.resp = "quit" THEN @ \cup {"job"}
                                   ELSE @,
                               !.alls =
                                   IF j.asked /\ j.resp = "all" THEN @ \cup {"job"}
                                   ELSE @,
                               !.declined =
                                   IF j.asked /\ j.resp \in {"no", "skip"}
                                   THEN @ \cup {<<"job", CurJob.name, mi, "", j.resp>>}
                                   ELSE @]} :
       \E c \in {evaluateJobCondition(CurJob.if, wf.env, r0)} :
       \E e \in {resolveJobEnv(CurJob.env, MatrixKeys(CurJob), matrixValues[mi], wf.env,
                               [vars |-> EmptyMap, r |-> c.r])} :
       \E jw \in {resolveVariablesInCommand(CurJob.wd, wf.env, CurJob.name, e.r,
                                            matrixValues[mi])} :
       \E out \in {
              IF AfterJobConfirmation(resp) = "return"
              THEN [next |-> "return", er |-> SetJob(er0, "skipped"), r |-> r0, h |-> h0]
              ELSE IF AfterJobConfirmation(resp) = "throw"
              THEN [next |-> "throw", er |-> SetJob(er0, "skipped"), r |-> r0, h |-> h0]
              ELSE IF ~c.result
              THEN [next |-> "return", er |-> SetJob(er0, "skipped"), r |-> c.r,
                    h |-> [h0 EXCEPT !.conds =
                              @ \cup {<<"job", CurJob.name, Text(CurJob.if), FALSE>>}]]
              ELSE [next |-> "steps", er |-> er0, r |-> jw.r,
                    h |-> [h0 EXCEPT !.conds =
                              @ \cup {<<"job", CurJob.name, Text(CurJob.if), TRUE>>}]]} :
          /\ executionResults' = out.er
          /\ resolvedVariables' = out.r.rv
          /\ hist' = Logged(out.h, out.r)
          /\ runAllJobsMode' =
                modesAfterJobResponse(runAllJobsMode, runAllCommandsMode, resp).jobs
          /\ runAllCommandsMode' =
                modesAfterJobResponse(runAllJobsMode, runAllCommandsMode, resp).commands
          /\ CASE out.next = "return" -> ReturnFromInstance /\ UNCHANGED <<si, cur>>
               [] out.next = "throw" ->
                    /\ pc' = "aborted"
                    /\ UNCHANGED <<anyJobRun, mi, completedJobs, passIdx, si, cur>>
               [] OTHER ->
                    /\ pc' = "step" /\ si' = 1
                    /\ cur' = [env |-> e.vars, cmd |-> "", jobWorkingDir |-> jw.text]
                    /\ UNCHANGED <<anyJobRun, mi, completedJobs, passIdx>>
    /\ UNCHANGED <<mode, wf, isDryRun, matrixValues, stepOutputs,
                   jobOutputs, fn,
                   workflowWorkingDir>>

\* what handleAction may report for a mocked action
ActionStatuses == {"success", "failed", "skipped"}

\* a step loop that leaves out every other step
NextStepSkipping ==
    /\ pc' = "step" /\ si' = si + 2
    /\ UNCHANGED <<anyJobRun, mi, completedJobs, passIdx>>

\* the next iteration of the step loop
NextStep ==
    /\ pc' = "step" /\ si' = si + 1
    /\ UNCHANGED <<anyJobRun, mi, completedJobs, passIdx>>

\* a step with a run: up to the start of its command
RunStep ==
    /\ mode = "run" /\ pc = "step" /\ si <= Len(CurJob.steps) /\ CurStep.run # <<>>
    /\ \E ans \in Confirmations, script \in Scripts :
       \E resp \in {IF runAllCommandsMode THEN "yes" ELSE ans},
          er0 \in {PushStep(executionResults, CurStep.id)},
          c \in {evaluateStepCondition(CurStep.if, wf.env, CurJob.name, Ctx(script))} :
       \E wd \in {resolveVariablesInCommand(CurStep.wd, wf.env, CurJob.name, c.r,
                                            matrixValues[mi])} :
       \E rc \in {resolveVariablesInCommand(CurStep.run, wf.env, CurJob.name, wd.r,
                                            matrixValues[mi])},
          h0 \in {[hist EXCEPT !.conds =
                      @ \cup {<<"step", CurJob.name, Text(CurStep.if), c.result>>}]} :
       \E r1 \in {IF ~isDryRun /\ ~runAllCommandsMode
                  THEN Confirmed(rc.r, "command", Text(rc.text)) ELSE rc.r} :
       \E out \in {
              IF ~c.result
              THEN [next |-> "continue", er |-> SetStep(er0, "skipped"), r |-> c.r, h |-> h0]
              ELSE IF isDryRun
              THEN [next |-> "continue", er |-> er0, r |-> r1, h |-> h0]
              ELSE IF resp = "quit"
              THEN [next |-> "return", er |-> SetJob(SetStep(er0, "skipped"), "skipped"),
                    r |-> r1, h |-> [h0 EXCEPT !.quits = @ \cup {"command"}]]
              ELSE IF resp = "skip"
              THEN [next |-> "continue", er |-> SetStep(er0, "skipped"), r |-> r1,
                    h |-> [h0 EXCEPT !.declined =
                              @ \cup {<<"command", CurJob.name, mi, CurStep.id, resp>>}]]
              ELSE IF resp = "no"
              THEN [next |-> "continue", er |-> er0, r |-> r1,
                    h |-> [h0 EXCEPT !.declined =
                              @ \cup {<<"command", CurJob.name, mi, CurStep.id, resp>>}]]
              ELSE [next |-> "exec", er |-> er0, r |-> r1,
                    h |-> [h0 EXCEPT
                             !.exec = Append(@, [job |-> CurJob.name, mi |-> mi,
                                                 step |-> CurStep.id, cmd |-> Text(rc.text),
                                                 cwd |-> Text(stepWorkingDirOf(
                                                            wd.text, cur.jobWorkingDir,
                                                            workflowWorkingDir)),
                                                 env |-> envVarsOf(cur.env)]),
                             !.afterQuit = IF hist.quits # {} THEN @ \cup {"command"}
                                           ELSE @,
                             !.alls = IF resp = "all" THEN @ \cup {"command"} ELSE @]]} :
          /\ executionResults' = out.er
          /\ resolvedVariables' = out.r.rv
          /\ hist' = Logged(out.h, out.r)
          /\ runAllCommandsMode' = (runAllCommandsMode \/ (out.next = "exec" /\ resp = "all"))
          /\ CASE out.next = "return" -> ReturnFromInstance /\ UNCHANGED <<si, cur>>
               [] out.next = "continue" -> NextStep /\ UNCHANGED cur
               [] OTHER ->
                    /\ pc' = "exec" /\ cur' = [cur EXCEPT !.cmd = Text(rc.text)]
                    /\ UNCHANGED <<anyJobRun, mi, completedJobs, passIdx, si>>
    /\ UNCHANGED <<mode, wf, isDryRun, matrixValues, runAllJobsMode, stepOutputs,
                   jobOutputs, fn,
                   workflowWorkingDir>>

\* a step loop that goes on after a failure only when the answer is yes
AfterFailureAnswerYesOnly(resp) == IF resp = "yes" THEN "continue" ELSE "return"

\* what runJobInstance does with the answer to "Do you want to continue with the next
\* step?": return from the instance, or go on to the outputs and the next step
AfterFailureAnswer(resp) == IF resp \in {"quit", "no"} THEN "return" ELSE "continue"

\* executeCommand has resolved: the status, the question after a failure, the outputs
ExecReturn ==
    /\ mode = "run" /\ pc = "exec"
    /\ \E ok \in BOOLEAN, outs \in CurStep.outs, ans \in Confirmations :
       \E resp \in {IF ~ok /\ ~runAllCommandsMode THEN ans ELSE "yes"} :
       \E hw \in {[hist EXCEPT !.written =
                      Append(@, [job |-> CurJob.name, mi |-> mi, step |-> CurStep.id,
                                 outs |-> outs, file |-> FileOf(outs), ok |-> ok,
                                 resp |-> resp])]} :
       \E h0 \in {IF ok THEN hw
                  ELSE [hw EXCEPT !.failures = @ \cup {<<CurJob.name, mi, CurStep.id>>}]} :
       \E h1 \in {IF ~ok /\ ~runAllCommandsMode
                  THEN [h0 EXCEPT !.asked = Append(@, <<"failure", CurStep.id>>)]
                  ELSE h0} :
          /\ executionResults' =
                IF ok THEN SetStep(executionResults, "success")
                ELSE SetJob(SetStep(executionResults, "failed"), "failed")
          /\ IF AfterFailureAnswer(resp) = "return"
             THEN /\ ReturnFromInstance
                  /\ hist' = IF resp = "quit" THEN [h1 EXCEPT !.quits = @ \cup {"failure"}]
                             ELSE h1
                  /\ UNCHANGED <<si, stepOutputs, runAllCommandsMode>>
             ELSE /\ NextStep
                  /\ hist' = [h1 EXCEPT !.files =
                                 @ \cup {<<CurJob.name, mi, CurStep.id,
                                           readGitHubOutputs(FileOf(outs))>>},
                                        !.alls =
                                 IF resp = "all" THEN @ \cup {"failure"} ELSE @]
                  /\ runAllCommandsMode' = (runAllCommandsMode \/ resp = "all")
                  /\ stepOutputs' = StoreStepOutputs(stepOutputs, CurJob.name, CurStep.id,
                                                    readGitHubOutputs(FileOf(outs)))
    /\ UNCHANGED <<mode, wf, isDryRun, matrixValues, runAllJobsMode, resolvedVariables,
                   jobOutputs, cur, fn,
                   workflowWorkingDir>>

\* the characters /[^0-9.]/g leaves in a version
VersionChars == {"0", "1", "2", "3", "4", "5", "6", "7", "8", "9", "."}

\* version.replace(/[^0-9.]/g, ''): a version is held one character per token
normalized(version) == SelectSeq(version, LAMBDA t : t[2] \in VersionChars)

\* a check that compares the versions as they are written
checkTerraformVersionAsWritten(resolvedVersion, local) ==
    local.success /\ local.version = resolvedVersion

\* checkTerraformVersion returns (TRUE) or ends the run (FALSE); local is what
\* 'terraform version -json' gave: [success, version]
checkTerraformVersion(resolvedVersion, local) ==
    local.success /\ normalized(local.version) = normalized(resolvedVersion)

\* the text of a version, one character per token
Version(chars) == [i \in DOMAIN chars |-> Raw(chars[i])]

\* what the local terraform may report
LocalVersions ==
    {[success |-> FALSE, version |-> <<>>],
     [success |-> TRUE, version |-> Version(<<"1", ".", "5">>)],
     [success |-> TRUE, version |-> Version(<<"1", ".", "5", "+", "e">>)],
     [success |-> TRUE, version |-> Version(<<"1", ".", "6">>)],
     [success |-> TRUE, version |-> Version(<<"1", "5">>)]}

\* what handleAction may find where the mock of an action is looked for: no mock
\* directory, no mock file, a module that exports no function, a function that
\* throws, one that returns an object, one that returns something else
MockKinds == {"nodir", "nofile", "notfunction", "throws", "object", "other"}

\* the module that was loaded exports a function
MockIsFunction(kind) == kind \in {"throws", "object", "other"}

\* a handleAction that stores whatever came of calling the mock
MockStoresAlways(kind) == TRUE

\* mockOutputs && typeof mockOutputs === 'object', reached when the mock returned
MockStores(kind) == kind = "object"

\* String(value) for every entry of the object the mock returned
StringAll(outs) == [k \in DOMAIN outs |-> String(outs[k])]

\* context.stepOutputs after the entries of the mock's object are set: the maps of
\* the job and of the step are made even for an object without entries
StoreMockOutputs(so, jobName, stepId, outs) ==
    LET j == IF jobName \in DOMAIN so THEN so[jobName] ELSE EmptyMap
        t == IF stepId \in DOMAIN j THEN j[stepId] ELSE EmptyMap
    IN  (jobName :> ((stepId :> (StringAll(outs) @@ t)) @@ j)) @@ so

\* a handleAction that has no preview: it calls the mock in a dry run too
MockCalledAlways(dryRun, mock) == mock

\* handleAction calls the mock function: not in a dry run, and only if there is one
MockCalled(dryRun, mock) == ~dryRun /\ mock

\* a step without a run: setup-terraform, checkout, another action, or neither
UsesStep ==
    /\ mode = "run" /\ pc = "step" /\ si <= Len(CurJob.steps) /\ CurStep.run = <<>>
    /\ \E script \in Scripts, actionStatus \in ActionStatuses, local \in LocalVersions,
          kind \in MockKinds, outs \in CurStep.outs :
       \E mock \in {MockIsFunction(kind)},
          er0 \in {PushStep(executionResults, CurStep.id)},
          c \in {evaluateStepCondition(CurStep.if, wf.env, CurJob.name, Ctx(script))} :
       \E wd \in {IF CurStep.uses # "" /\ ~IsCheckout(CurStep.uses)
                  THEN resolveVariablesInCommand(CurStep.wd, wf.env, CurJob.name, c.r,
                                                 matrixValues[mi])
                  ELSE [text |-> <<>>, r |-> c.r]} :
       \E v \in {resolveVariablesInCommand(CurStep.version, wf.env, CurJob.name, wd.r,
                                           NoMatrixValue)} :
       \E out \in {
              IF ~c.result
              THEN [next |-> "continue", er |-> SetStep(er0, "skipped"), r |-> c.r,
                    tools |-> {}, so |-> stepOutputs]
              ELSE IF IsTerraformSetup(CurStep.uses)
              THEN IF CurStep.version = <<>>
                   THEN [next |-> "continue", er |-> er0, r |-> wd.r, tools |-> {},
                         so |-> stepOutputs]
                   ELSE IF isDryRun
                   THEN [next |-> "continue", er |-> er0, r |-> v.r, tools |-> {},
                         so |-> stepOutputs]
                   ELSE [next |-> IF checkTerraformVersion(v.text, local) THEN "continue"
                                  ELSE "exit",
                         er |-> er0, r |-> v.r, so |-> stepOutputs,
                         tools |-> {<<"terraform", CurJob.name, CurStep.id, v.text, local,
                                      checkTerraformVersion(v.text, local)>>}]
              ELSE IF IsCheckout(CurStep.uses)
              THEN [next |-> "continue", er |-> SetStep(er0, "skipped"), r |-> c.r,
                    tools |-> {}, so |-> stepOutputs]
              ELSE IF CurStep.uses # ""
              THEN [next |-> "continue", r |-> wd.r,
                    er |-> IF actionStatus = "failed"
                           THEN SetJob(SetStep(er0, "failed"), "failed")
                           ELSE SetStep(er0, actionStatus),
                    tools |-> (IF MockCalled(isDryRun, mock)
                               THEN {<<"mock", CurJob.name, CurStep.id>>}
                               ELSE {})
                              \cup (IF isDryRun THEN {}
                                    ELSE {<<"action", CurJob.name, mi, CurStep.id, kind,
                                            outs>>}),
                    so |-> IF MockCalled(isDryRun, mock) /\ MockStores(kind)
                           THEN StoreMockOutputs(stepOutputs, CurJob.name, CurStep.id, outs)
                           ELSE stepOutputs]
              ELSE [next |-> "continue", er |-> er0, r |-> c.r, tools |-> {},
                    so |-> stepOutputs]} :
          /\ executionResults' = out.er
          /\ resolvedVariables' = out.r.rv
          /\ stepOutputs' = out.so
          /\ hist' = Logged([hist EXCEPT !.conds =
                                @ \cup {<<"step", CurJob.name, Text(CurStep.if), c.result>>},
                                         !.tools = @ \cup out.tools],
                            out.r)
          /\ IF out.next = "exit"
             THEN pc' = "exited" /\ UNCHANGED <<anyJobRun, mi, completedJobs, passIdx, si>>
             ELSE NextStep
    /\ UNCHANGED <<mode, wf, isDryRun, matrixValues, runAllJobsMode, runAllCommandsMode,
                   jobOutputs, cur, fn, workflowWorkingDir>>

\* after the step loop: the job's outputs, then the return
EndSteps ==
    /\ mode = "run" /\ pc = "step" /\ si = Len(CurJob.steps) + 1
    /\ \E script \in Scripts :
       \E r \in {resolveJobOutputs(CurJob.outputs, CurJob.name, wf.env, Ctx(script))} :
          /\ jobOutputs' = r.jo
          /\ resolvedVariables' = r.rv
          /\ hist' = Logged(hist, r)
    /\ ReturnFromInstance
    /\ UNCHANGED <<mode, wf, isDryRun, matrixValues, si, runAllJobsMode, runAllCommandsMode,
                   stepOutputs, executionResults, cur, fn,
                   workflowWorkingDir>>

Next ==
    \/ Begin
    \/ ForSkip
    \/ ForJob
    \/ PassEnd
    \/ StartInstance
    \/ RunStep
    \/ ExecReturn
    \/ UsesStep
    \/ EndSteps

Spec == Init /\ [][Next]_vars

\* the run is over: runWorkflow has returned, has thrown, or the process has exited
RunEnded == mode = "run" /\ pc \in {"done", "aborted", "exited"}

\* every prompt and every command returns: runWorkflow is one sequential async function,
\* so the stretch of code after an await is run once the await has returned. This is
\* weak fairness of Next, WF_vars(Next), written without ENABLED: a step of Next is
\* possible in exactly the states in which the run is not over
EveryAwaitReturns == []<><<Next>>_vars \/ <>[]RunEnded

SpecLive == Init /\ [][Next]_vars /\ EveryAwaitReturns

-----------------------------------------------------------------------------
(* The functions on their own: each specification below starts from the    *)
(* arguments of one call and applies the function to them.                 *)

runVars == <<wf, isDryRun, pc, passIdx, anyJobRun, completedJobs, mi, si, runAllJobsMode,
             runAllCommandsMode, executionResults, cur, workflowWorkingDir>>

\* no run is going on
NoRun(env) ==
    /\ wf = [env |-> env, wd |-> <<>>, jobs |-> <<>>]
    /\ isDryRun = FALSE
    /\ pc = "done"
    /\ passIdx = 1
    /\ anyJobRun = FALSE
    /\ completedJobs = {}
    /\ mi = 0
    /\ si = 0
    /\ runAllJobsMode = FALSE
    /\ runAllCommandsMode = FALSE
    /\ executionResults = <<>>
    /\ cur = NoLocals
    /\ hist = NoHistory
    /\ workflowWorkingDir = <<>>

NeedsOutput(j, n) == Dotted(<<"needs", j, "outputs", n>>)
StepsOutput(id, n) == Dotted(<<"steps", id, "outputs", n>>)
Equals(ref, v) == ref \o <<Ws, Op("=="), Ws, Str(v)>>
OrElse(a, b) == a \o <<Ws, Op("||"), Ws>> \o b
Enabled(ref) == <<Id("fromJSON"), LP>> \o ref \o <<RP, Dot, Id("enabled")>>

\* the conditions the evaluators are applied to
Conditions ==
    {<<>>,
     Call0("always"),
     Call0("failure"),
     NeedsResultIsSuccess("B"),
     Equals(NeedsOutput("B", "y"), "refs/tags/v1"),
     Equals(StepsOutput("s", "v"), "a"),
     <<Id("startsWith"), LP>> \o NeedsOutput("B", "y") \o <<Comma>>
        \o Dotted(<<"github", "ref_name">>) \o <<RP>>,
     <<Id("startsWith"), LP>> \o StepsOutput("s", "v") \o <<Comma>>
        \o Dotted(<<"github", "ref_name">>) \o <<RP>>,
     OrElse(Call0("always"), Enabled(NeedsOutput("B", "cfg"))),
     OrElse(Call0("always"), Enabled(StepsOutput("s", "cfg"))),
     Call0("always") \o <<Ws, Op("&&")>>,
     Equals(<<Id("nothing")>>, "a"),
     Equals(Dotted(<<"github", "ref_name">>), "main"),
     Equals(Wrap(Dotted(<<"github", "event", "inputs", "go">>)), "u1")}

ConditionJobOutputs ==
    {EmptyMap, ("B" :> ("y" :> "refs/tags/v1")), ("B" :> ("cfg" :> "7"))}

\* the job whose step conditions are evaluated
ConditionJob == "J"

ConditionStepOutputs == {EmptyMap, (ConditionJob :> ("s" :> ("v" :> "a")))}

ConditionCaches == {EmptyMap, ("github.ref_name" :> "main")}

InitCond ==
    /\ mode = "cond"
    /\ NoRun(EmptyMap)
    /\ matrixValues = <<>>
    /\ resolvedVariables \in ConditionCaches
    /\ jobOutputs \in ConditionJobOutputs
    /\ stepOutputs \in ConditionStepOutputs
    /\ fn \in {[done |-> FALSE, kind |-> k, cond |-> c, ans |-> a] :
                  k \in {"job", "step"}, c \in Conditions, a \in Scripts}

\* the record of a call that returned x from the context it was made in
Returned(x) ==
    [done |-> TRUE, kind |-> fn.kind, cond |-> fn.cond, ans |-> fn.ans,
     result |-> x.result, raised |-> x.raised, text |-> x.text,
     before |-> [rv |-> resolvedVariables, jo |-> jobOutputs, so |-> stepOutputs]]

EvaluateJob ==
    /\ mode = "cond" /\ ~fn.done /\ fn.kind = "job"
    /\ \E x \in {evaluateJobCondition(fn.cond, wf.env, Ctx(fn.ans))} :
          /\ fn' = Returned(x)
          /\ resolvedVariables' = x.r.rv
          /\ jobOutputs' = x.r.jo
          /\ stepOutputs' = x.r.so
          /\ hist' = Logged(hist, x.r)
    /\ UNCHANGED <<mode, matrixValues, runVars>>

EvaluateStep ==
    /\ mode = "cond" /\ ~fn.done /\ fn.kind = "step"
    /\ \E x \in {evaluateStepCondition(fn.cond, wf.env, ConditionJob, Ctx(fn.ans))} :
          /\ fn' = Returned(x)
          /\ resolvedVariables' = x.r.rv
          /\ jobOutputs' = x.r.jo
          /\ stepOutputs' = x.r.so
          /\ hist' = Logged(hist, x.r)
    /\ UNCHANGED <<mode, matrixValues, runVars>>

NextCond ==
    \/ EvaluateJob
    \/ EvaluateStep

SpecCond == InitCond /\ [][NextCond]_vars

\* the expressions the resolver is applied to
Expressions ==
    {Dotted(<<"github", "ref_type">>),
     Dotted(<<"github", "event", "inputs", "go">>),
     Dotted(<<"secrets", "TOKEN">>),
     Dotted(<<"env", "REGION">>),
     Dotted(<<"env", "HOME">>),
     Dotted(<<"github", "sha">>),
     NeedsOutput("A", "o"),
     <<Id("fromJSON"), LP>> \o NeedsOutput("A", "o") \o <<RP>>,
     Dotted(<<"runner", "os">>)}

\* what job A may publish as its output o
OutputTexts == {"7", "[ \"a\" ]"}

MaxCalls == 2

InitResolve ==
    /\ mode = "resolve"
    /\ NoRun(("REGION" :> "eu"))
    /\ matrixValues = <<>>
    /\ resolvedVariables = EmptyMap
    /\ jobOutputs = EmptyMap
    /\ stepOutputs = EmptyMap
    /\ fn = [n |-> 0, e |-> "", v |-> ""]

\* one call of resolveGitHubExpression, from any call site; fn keeps the number of
\* calls made, the expression of the last one and the value it returned
Resolve ==
    /\ mode = "resolve" /\ fn.n < MaxCalls
    /\ \E e \in Expressions, script \in Scripts :
       \E x \in {resolveGitHubExpression(e, wf.env, Ctx(script))} :
          /\ resolvedVariables' = x.r.rv
          /\ jobOutputs' = x.r.jo
          /\ hist' = Logged(hist, x.r)
          /\ fn' = [n |-> fn.n + 1, e |-> Text(e), v |-> x.v]
    /\ UNCHANGED <<mode, matrixValues, stepOutputs, runVars>>

\* between two calls a job finishes and its output is stored (runJobInstance)
SetJobOutput ==
    /\ mode = "resolve"
    /\ \E v \in OutputTexts :
          /\ jobOutputs' = WithJobOutput("A", "o", [v |-> v, r |-> Ctx(<<>>)]).jo
          /\ jobOutputs' # jobOutputs
    /\ UNCHANGED <<mode, matrixValues, resolvedVariables, stepOutputs, hist, fn, runVars>>

NextResolve ==
    \/ Resolve
    \/ SetJobOutput

SpecResolve == InitResolve /\ [][NextResolve]_vars

\* the expressions of the commands that are resolved
CommandExpressions ==
    {Dotted(<<"github", "event", "inputs", "x">>),
     Dotted(<<"secrets", "T">>),
     Dotted(<<"matrix", "k">>)}

\* a placeholder of e with n whitespace characters on each side
RECURSIVE Blanks(_)
Blanks(n) == IF n = 0 THEN <<>> ELSE <<Ws>> \o Blanks(n - 1)

Placeholder(e, n) == <<OpenB>> \o Blanks(n) \o e \o Blanks(n) \o <<CloseB>>

MaxBlanks == 2

Placeholders == {Placeholder(e, n) : e \in CommandExpressions, n \in 0..MaxBlanks}

\* echo followed by one or two placeholders
Commands ==
    {<<Raw("echo"), Ws>> \o p : p \in Placeholders}
    \cup {<<Raw("echo"), Ws>> \o p \o <<Ws>> \o q : p \in Placeholders, q \in Placeholders}

\* what the user may type when a command is resolved
CommandAnswers == {"u1", "a$$b", "$&"}

CommandScripts == UNION {[1..n -> CommandAnswers] : n \in 0..2}

\* the matrix value of the instance whose command is resolved
CommandMatrix == [has |-> TRUE, b |-> ("k" :> "a")]

InitCommand ==
    /\ mode = "command"
    /\ NoRun(EmptyMap)
    /\ matrixValues = <<>>
    /\ resolvedVariables = EmptyMap
    /\ jobOutputs = EmptyMap
    /\ stepOutputs = EmptyMap
    /\ fn \in {[done |-> FALSE, command |-> c, ans |-> a] :
                  c \in Commands, a \in CommandScripts}

\* one call of resolveVariablesInCommand
ResolveCommand ==
    /\ mode = "command" /\ ~fn.done
    /\ \E x \in {resolveVariablesInCommand(fn.command, wf.env, ConditionJob, Ctx(fn.ans),
                                            CommandMatrix)} :
          /\ fn' = [done |-> TRUE, command |-> fn.command, ans |-> fn.ans, text |-> x.text]
          /\ resolvedVariables' = x.r.rv
          /\ jobOutputs' = x.r.jo
          /\ stepOutputs' = x.r.so
          /\ hist' = Logged(hist, x.r)
    /\ UNCHANGED <<mode, matrixValues, runVars>>

NextCommand == ResolveCommand

SpecCommand == InitCommand /\ [][NextCommand]_vars

AxisKeys == <<"os", "ver", "arch">>

AxisItems == {"a", "b", "c"}

MaxAxes == 2

MaxAxisLen == 2

\* the arrays an axis may list: up to MaxAxisLen different values
AxisLists ==
    UNION {{l \in [1..n -> AxisItems] : \A i, j \in 1..n : i # j => l[i] # l[j]} :
              n \in 0..MaxAxisLen}

\* an axis is an array, a single value, or an expression for a job output
AxesOf(key) ==
    {[key |-> key, kind |-> "list", items |-> l, text |-> "", expr |-> <<>>] : l \in AxisLists}
    \cup {[key |-> key, kind |-> "scalar", items |-> <<>>, text |-> "c", expr |-> <<>>],
          [key |-> key, kind |-> "expr", items |-> <<>>, text |-> "",
           expr |-> Wrap(<<Id("fromJSON"), LP>> \o NeedsOutput("A", "o") \o <<RP>>)]}

Matrices ==
    UNION {{m \in [1..n -> UNION {AxesOf(AxisKeys[i]) : i \in 1..n}] :
               \A i \in 1..n : m[i].key = AxisKeys[i]} : n \in 1..MaxAxes}

MatrixJobOutputs ==
    {("A" :> ("o" :> v)) : v \in {"[\"a\",\"b\"]", "[]", "7"}}

InitMatrix ==
    /\ mode = "matrix"
    /\ NoRun(EmptyMap)
    /\ matrixValues = <<>>
    /\ resolvedVariables = EmptyMap
    /\ jobOutputs \in MatrixJobOutputs
    /\ stepOutputs = EmptyMap
    /\ fn \in {[done |-> FALSE, matrix |-> m] : m \in Matrices}

\* the matrix branch of the main loop, up to the first instance
Expand ==
    /\ mode = "matrix" /\ ~fn.done
    /\ \E m \in {resolveMatrix(fn.matrix, wf.env, [rm |-> <<>>, r |-> Ctx(<<>>)])} :
       \E x \in {MatrixInstances(m)} :
          /\ fn' = [done |-> TRUE, matrix |-> fn.matrix, rm |-> m.rm]
          /\ matrixValues' = x.values
          /\ resolvedVariables' = x.r.rv
          /\ hist' = Logged(hist, x.r)
    /\ UNCHANGED <<mode, jobOutputs, stepOutputs, runVars>>

NextMatrix == Expand

SpecMatrix == InitMatrix /\ [][NextMatrix]_vars

-----------------------------------------------------------------------------
(* Properties of a run                                                     *)

JobNames == {wf.jobs[i].name : i \in DOMAIN wf.jobs}

JobNamed(n) == CHOOSE j \in {wf.jobs[i] : i \in DOMAIN wf.jobs} : j.name = n

StepOf(n, id) ==
    CHOOSE t \in {JobNamed(n).steps[i] : i \in DOMAIN JobNamed(n).steps} : t.id = id

Results == {executionResults[i] : i \in DOMAIN executionResults}

Prompts == {hist.asked[i] : i \in DOMAIN hist.asked}

Executed == {hist.exec[i] : i \in DOMAIN hist.exec}

\* C1: no instance of a job has been started, no confirmation of it asked and no
\* command of it executed unless every job it needs is in the completed set
C1_NeedsCompletedBeforeStart ==
    /\ \A x \in Results : NeedsOf(JobNamed(x.job)) \subseteq completedJobs
    /\ \A q \in Prompts :
          q[1] = "job" => NeedsOf(JobNamed(q[2])) \subseteq completedJobs
    /\ \A x \in Executed : NeedsOf(JobNamed(x.job)) \subseteq completedJobs

\* a job has been started whose needed job was skipped
C1_Witness ==
    \E x, y \in Results :
        /\ y.job \in NeedsOf(JobNamed(x.job))
        /\ y.status = "skipped"
        /\ <<"job", x.job>> \in Prompts

\* C2: every job that has finished, whatever its outcome, is in the completed set: a
\* job with an instance on record is completed unless it is the job still being run
C2_FinishedIsCompleted ==
    \A x \in Results :
        \/ x.job \in completedJobs
        \/ pc \notin {"loop", "done"} /\ x.job = CurJob.name

\* a job whose command failed is completed and a job that needs it has been started
C2_Witness ==
    \E x, y \in Results :
        /\ y.job \in NeedsOf(JobNamed(x.job))
        /\ y.status = "failed"
        /\ y.job \in completedJobs
        /\ \A n \in NeedsOf(JobNamed(x.job)) :
              \E z \in Results : z.job = n /\ z.status # "success"

\* C3: after a quit answer no job instance is started and no command is executed
C3_NothingRunsAfterQuit == hist.afterQuit = {}

StatusTruth(f) == f \in {"always", "success"}

GuardedOff(cond) == cond \in {Call0("failure"), Call0("cancelled")}

\* C8: wherever a run evaluates a condition (a job condition when an instance is
\* about to be started, a step condition when a step is about to be handled), whatever
\* has failed or been skipped before, always() and success() are true and failure()
\* and cancelled() are false, bare and as ${{ f() }}, and no job or step whose if is
\* failure() or cancelled() is executed
C8_StatusFunctionsConstant ==
    /\ \A f \in StatusFunctions :
          /\ pc = "instance" =>
                /\ evaluateJobCondition(Call0(f), wf.env, Ctx(<<>>)).result = StatusTruth(f)
                /\ evaluateJobCondition(Wrap(Call0(f)), wf.env, Ctx(<<>>)).result
                      = StatusTruth(f)
          /\ pc = "step" =>
                /\ evaluateStepCondition(Call0(f), wf.env, CurJob.name, Ctx(<<>>)).result
                      = StatusTruth(f)
                /\ evaluateStepCondition(Wrap(Call0(f)), wf.env, CurJob.name,
                                         Ctx(<<>>)).result = StatusTruth(f)
          /\ \A c \in hist.conds : c[3] = Text(Call0(f)) => c[4] = StatusTruth(f)
    /\ \A x \in Executed :
          ~GuardedOff(JobNamed(x.job).if) /\ ~GuardedOff(StepOf(x.job, x.step).if)
    /\ \A x \in Results :
          /\ GuardedOff(JobNamed(x.job).if) => x.status = "skipped" /\ x.steps = <<>>
          /\ \A i \in DOMAIN x.steps :
                GuardedOff(StepOf(x.job, x.steps[i].id).if) => x.steps[i].status = "skipped"

\* a command has failed and, after it, a job guarded by failure() was skipped on its
\* condition
C8_Witness ==
    \E i, k \in DOMAIN executionResults :
        /\ i < k
        /\ executionResults[i].status = "failed"
        /\ JobNamed(executionResults[k].job).if = Call0("failure")
        /\ <<"job", executionResults[k].job, Text(Call0("failure")), FALSE>> \in hist.conds

\* C9: needs.<job>.result == "success" is true in every state of a run, for every job
\* of the workflow and for a name that is no job, and was true whenever a job condition
\* of that form was evaluated
C9_NeedsResultAlwaysSuccess ==
    /\ \A j \in JobNames \cup {"ghost"} :
          /\ evaluateJobCondition(NeedsResultIsSuccess(j), wf.env, Ctx(<<>>)).result
          /\ \A c \in hist.conds :
                c[1] = "job" /\ c[3] = Text(NeedsResultIsSuccess(j)) => c[4]

\* the condition was evaluated, to true, with the job it asks about failed
C9_Witness ==
    \E x \in Results, c \in hist.conds :
        /\ x.status = "failed"
        /\ c = <<"job", c[2], Text(NeedsResultIsSuccess(x.job)), TRUE>>
        /\ c[2] # x.job

-----------------------------------------------------------------------------
(* Properties of the condition evaluators                                  *)

\* cond mentions <root>.<a>.outputs.<b> for an output <a>.<b> that lookup has not
MentionsMissingOutput(cond, root, lookup) ==
    \E i \in 1..(Len(cond) - 6) :
        /\ cond[i] = Id(root) /\ cond[i + 1] = Dot /\ cond[i + 2][1] = "id"
        /\ cond[i + 3] = Dot /\ cond[i + 4] = Id("outputs") /\ cond[i + 5] = Dot
        /\ cond[i + 6][1] = "id"
        /\ <<cond[i + 2][2], cond[i + 6][2]>> \notin DOMAIN lookup

MissingOutputCase ==
    /\ fn.done
    /\ \/ fn.kind = "job"
          /\ MentionsMissingOutput(fn.cond, "needs", JobOutputLookup(fn.before.jo))
       \/ fn.kind = "step"
          /\ MentionsMissingOutput(fn.cond, "steps",
                                   StepOutputLookup(fn.before.so, ConditionJob))

\* C6: a condition that mentions an output that is not recorded evaluates to false,
\* without an error, without a prompt and with the context as it was
C6_FailClosed ==
    MissingOutputCase =>
        /\ ~fn.result
        /\ ~fn.raised
        /\ hist.asked = <<>>
        /\ resolvedVariables = fn.before.rv
        /\ jobOutputs = fn.before.jo
        /\ stepOutputs = fn.before.so

\* the case where the evaluator does fail closed
C6_Witness ==
    /\ MissingOutputCase
    /\ fn.cond = Equals(NeedsOutput("B", "y"), "refs/tags/v1")
    /\ ~fn.result /\ hist.asked = <<>> /\ resolvedVariables = fn.before.rv

\* C7: the evaluators return and do not raise; an empty condition gives true; a
\* rewritten condition whose evaluation fails gives false
C7_NeverRaises ==
    fn.done =>
        /\ ~fn.raised
        /\ fn.cond = <<>> => fn.result
        /\ (fn.cond # <<>> /\ Eval(fn.text) = JsThrown) => ~fn.result

\* a condition with a syntax error was evaluated
C7_Witness ==
    /\ fn.done /\ ~fn.raised /\ ~fn.result
    /\ fn.cond = Call0("always") \o <<Ws, Op("&&")>>
    /\ Eval(fn.text) = JsThrown

-----------------------------------------------------------------------------
(* Properties of the resolver                                              *)

Calls == hist.calls

PromptsFor(key) ==
    {i \in DOMAIN hist.asked :
        hist.asked[i][2] = key /\ hist.asked[i][1] \in {"input", "menu", "secret"}}

-----------------------------------------------------------------------------
(* Properties of the matrix expansion                                      *)

\* the values of axis i: of an axis given as an expression, what it resolved to
AxisOf(i) ==
    IF fn.matrix[i].kind = "list" THEN fn.matrix[i].items
    ELSE IF fn.matrix[i].kind = "scalar" THEN <<fn.matrix[i].text>>
    ELSE IF fn.rm[i].value.arr THEN fn.rm[i].value.items
    ELSE <<fn.rm[i].value.text>>

\* the product of the lengths of the axes from i on
RECURSIVE Combinations(_)
Combinations(i) ==
    IF i > Len(fn.matrix) THEN 1 ELSE Len(AxisOf(i)) * Combinations(i + 1)

\* the position in axis i of the value the k-th binding set must bind
PositionIn(i, k) == (((k - 1) \div Combinations(i + 1)) % Len(AxisOf(i))) + 1

\* C10: the binding sets are the cartesian product of the axes: as many as the
\* product of the axis lengths, each with exactly the axis keys, the k-th being the
\* k-th combination counted with the first axis slowest, and every combination of one
\* value per axis is bound by exactly one of them
C10_CartesianProduct ==
    fn.done =>
        LET n == Len(fn.matrix)
        IN  /\ Len(matrixValues) = Combinations(1)
            /\ \A k \in DOMAIN matrixValues :
                  /\ matrixValues[k].has
                  /\ DOMAIN matrixValues[k].b = {fn.matrix[i].key : i \in 1..n}
                  /\ \A i \in 1..n :
                        matrixValues[k].b[fn.matrix[i].key] = AxisOf(i)[PositionIn(i, k)]
            /\ \A c \in [1..n -> 1..(MaxAxisLen + 1)] :
                  (\A i \in 1..n : c[i] <= Len(AxisOf(i))) =>
                      Cardinality({k \in DOMAIN matrixValues :
                          \A i \in 1..n :
                              matrixValues[k].b[fn.matrix[i].key] = AxisOf(i)[c[i]]}) = 1

\* two axes of two values each were expanded to four binding sets
C10_Witness ==
    /\ fn.done
    /\ Len(fn.matrix) = 2
    /\ fn.matrix[1].kind = "list" /\ Len(fn.matrix[1].items) = 2
    /\ fn.matrix[2].kind = "list" /\ Len(fn.matrix[2].items) = 2
    /\ Len(matrixValues) = 4

-----------------------------------------------------------------------------
(* Properties of matrix instances, directories and environments            *)

\* the job being run has an include-style matrix, expanded
IncludeJobRuns ==
    /\ mode = "run" /\ pc \in {"instance", "step", "exec"}
    /\ CurJob.hasMatrix /\ MatrixKeys(CurJob) = <<"include">>

\* C11: for an include-style matrix there is one binding set per entry of the list,
\* each binding set has the properties of its entry, and no matrix.<key> of an
\* instance is asked of the user
C11_IncludeEntriesAreBindingSets ==
    IncludeJobRuns =>
        /\ Len(matrixValues) = Len(CurJob.matrix[1].items)
        /\ \A k \in DOMAIN matrixValues :
              matrixValues[k].b = ObjectProps[CurJob.matrix[1].items[k]]
        /\ \A q \in Prompts : q[2] \notin {"matrix.directory", "matrix.region"}

\* an instance of the include-style job has executed its command
C11_Witness ==
    /\ IncludeJobRuns
    /\ \E e \in Executed : e.job = CurJob.name

\* what a working-directory setting of WDirs reads once its expressions are resolved
ResolvedDir(d) ==
    IF d = Wrap(Dotted(<<"inputs", "dir">>))
    THEN <<Raw(resolvedVariables["inputs.dir"])>>
    ELSE d

\* the absolute path of a directory given relative to the root of the repository
UnderRoot(d) == IF Text(d) = "" THEN Text(workingDir) ELSE Text(workingDir) \o "/" \o Text(d)

\* the directory of the first of the three settings that passes the test chosen
FirstOf(chosen(_), stepDir, jobDir, workflowDir) ==
    IF chosen(stepDir) THEN UnderRoot(stepDir)
    ELSE IF chosen(jobDir) THEN UnderRoot(jobDir)
    ELSE IF chosen(workflowDir) THEN UnderRoot(workflowDir)
    ELSE Text(workingDir)

\* the settings in force for an executed command e of a workflow of WDirs
DirOfStep(e) == ResolvedDir(StepOf(e.job, e.step).wd)
DirOfJob(e) == JobNamed(e.job).wd

\* C12, as stated: a command runs in the directory of the step if the step defines one,
\* else in that of the job's defaults, else in that of the workflow's defaults, else in
\* the root of the repository
C12_FirstDefinedWins ==
    wf \in WDirs =>
        \A e \in Executed :
            e.cwd = FirstOf(LAMBDA d : d # <<>>, DirOfStep(e), DirOfJob(e), wf.wd)

\* C12: a command runs in the directory of the first of the three settings (step, job
\* defaults, workflow defaults) that is defined and does not resolve to the empty
\* text, and in the root of the repository when there is none
C12_FirstNonEmptyWins ==
    wf \in WDirs =>
        \A e \in Executed :
            e.cwd = FirstOf(LAMBDA d : Text(d) # "", DirOfStep(e), DirOfJob(e), wf.wd)

\* a command ran in the directory of its step although the job and the workflow name
\* one too, and another ran in the directory of the workflow, the only one given
C12_Witness ==
    \/ /\ wf = WDirsOf(Dir("sdir"), Dir("jdir"), Dir("wdir"))
       /\ \E e \in Executed : e.cwd = "/repo/sdir"
    \/ /\ wf = WDirsOf(<<>>, <<>>, Dir("wdir"))
       /\ \E e \in Executed : e.cwd = "/repo/wdir"

\* C13: in a dry run no command is executed (none by the Terraform check either), no
\* mock is called, no confirmation of a command and no question after a failure is
\* asked, and context.stepOutputs stays empty
C13_DryRunExecutesNothing ==
    isDryRun =>
        /\ hist.exec = <<>>
        /\ hist.tools = {}
        /\ hist.files = {}
        /\ \A q \in Prompts : q[1] \notin {"command", "failure"}
        /\ pc # "exec"
        /\ stepOutputs = EmptyMap

\* a dry run has gone through a run step and through the Terraform and the action step
C13_Witness ==
    /\ isDryRun /\ pc = "done"
    /\ \/ wf = WUses /\ \E z \in Results : z.job = "U" /\ Len(z.steps) = 4
       \/ wf = WSteps /\ \E z \in Results : z.job = "J" /\ Len(z.steps) = 2

\* the position of the step with this id among the steps of the job
StepIndex(n, id) == CHOOSE i \in DOMAIN JobNamed(n).steps : JobNamed(n).steps[i].id = id

\* ${{ steps.<id>.outputs.<key> }}
StepOutputRef(id, key) == Wrap(StepsOutput(id, key))

\* C14: when a run step S of a job instance has executed and left key=value in its
\* output file, the command of every later step of that instance that refers to
\* steps.S.outputs.key is executed with value in its place, and the user is not asked
\* for steps.S.outputs.key
C14_LaterStepGetsOutput ==
    \A f \in hist.files : \A key \in DOMAIN f[4] :
        /\ \A e \in Executed :
              (/\ e.job = f[1] /\ e.mi = f[2]
               /\ StepIndex(e.job, e.step) > StepIndex(f[1], f[3])
               /\ Includes(StepOf(e.job, e.step).run, StepOutputRef(f[3], key)))
              => e.cmd = Text(ReplaceFirst(StepOf(e.job, e.step).run,
                                           StepOutputRef(f[3], key), <<Raw(f[4][key])>>))
        /\ ~JobNamed(f[1]).hasMatrix
              => \A q \in Prompts : q[2] # Text(StepsOutput(f[3], key))

\* the second step of J was executed with the output of the first in its command
C14_Witness ==
    /\ wf = WSteps
    /\ <<"J", 1, "S", ("key" :> "value")>> \in hist.files
    /\ \E e \in Executed : e.job = "J" /\ e.step = "use" /\ e.cmd = "echo value"

\* the keys of an env given as a list of [key, value]
EnvKeys(env) == {env[i].key : i \in DOMAIN env}

\* a value without expressions
IsLiteral(value) == extractGitHubExpressions(value) = <<>>

\* C15: the environment a command is executed with holds every key of the env of its
\* step, a literal value as it is written; a key of the env of the job that the step
\* does not repeat has the value of the job, also where a process default has that key
C15_StepEnvReachesCommand ==
    \A e \in Executed :
        /\ \A i \in DOMAIN StepOf(e.job, e.step).env :
              /\ StepOf(e.job, e.step).env[i].key \in DOMAIN e.env
              /\ IsLiteral(StepOf(e.job, e.step).env[i].value)
                    => e.env[StepOf(e.job, e.step).env[i].key]
                          = Text(StepOf(e.job, e.step).env[i].value)
        /\ \A i \in DOMAIN JobNamed(e.job).env :
              (/\ JobNamed(e.job).env[i].key \notin EnvKeys(StepOf(e.job, e.step).env)
               /\ IsLiteral(JobNamed(e.job).env[i].value))
              => /\ JobNamed(e.job).env[i].key \in DOMAIN e.env
                 /\ e.env[JobNamed(e.job).env[i].key] = Text(JobNamed(e.job).env[i].value)

\* the command of a step with an env of its own was executed
C15_Witness ==
    \E e \in Executed : StepOf(e.job, e.step).env # <<>> /\ e.env["CI"] = "job"

-----------------------------------------------------------------------------
(* Properties of the confirmations                                         *)

\* how many confirmations of this kind ("job", "command") were asked so far
Asked(kind) == Cardinality({i \in DOMAIN hist.asked : hist.asked[i][1] = kind})

\* the job condition of the instance being started was found false in this step
JobConditionFailed ==
    <<"job", CurJob.name, Text(CurJob.if), FALSE>> \in hist'.conds

\* C16: once all was answered at a job confirmation, no step of the run asks a job
\* confirmation, and every job instance started from then on goes on to its steps
\* as after yes (unless its condition is false), neither skipped by the user nor
\* ending the run
C16_RunAllJobsIsSticky ==
    [][ "job" \in hist.alls =>
           /\ Asked("job")' = Asked("job")
           /\ pc = "instance" => pc' = "step" \/ (JobConditionFailed /\ pc' # "aborted")
      ]_vars

\* all was answered at the only job confirmation of the run, and three job instances
\* were started
C16_Witness ==
    /\ "job" \in hist.alls
    /\ Asked("job") = 1
    /\ Len(executionResults) = 3

\* C17: no step of the run resets a run-all mode; the step that takes the answer at a
\* job confirmation leaves run-all-commands mode as it was, and the steps that take the
\* answers at a command confirmation or after a failure leave run-all-jobs mode as it
\* was; a job confirmation is asked whenever run-all-jobs mode is off, and a command
\* is confirmed before it is executed whenever run-all-commands mode is off
C17_ModesAreSeparate ==
    [][ /\ runAllJobsMode => runAllJobsMode'
        /\ runAllCommandsMode => runAllCommandsMode'
        /\ pc = "instance" => runAllCommandsMode' = runAllCommandsMode
        /\ pc \in {"step", "exec"} => runAllJobsMode' = runAllJobsMode
        /\ (pc = "instance" /\ ~runAllJobsMode) => Asked("job")' = Asked("job") + 1
        /\ (pc = "step" /\ pc' = "exec" /\ ~runAllCommandsMode)
              => Asked("command")' = Asked("command") + 1
      ]_vars

\* after all at the first job confirmation two commands were still confirmed; or after
\* all at a command confirmation a second job confirmation was still asked
C17_Witness ==
    \/ /\ runAllJobsMode /\ ~runAllCommandsMode
       /\ Asked("job") = 1 /\ Asked("command") >= 2
    \/ /\ runAllCommandsMode /\ ~runAllJobsMode
       /\ "command" \in hist.alls /\ Asked("job") >= 2

-----------------------------------------------------------------------------
(* Properties of the Terraform version gate and of the end of the run      *)

\* the checks of the local Terraform version made so far:
\* <<"terraform", job, step, required version, local result, passed>>
TerraformChecks == {t \in hist.tools : t[1] = "terraform"}

\* the digits and dots of a version, in their order
RECURSIVE DigitsAndDots(_)
DigitsAndDots(version) ==
    IF version = <<>> THEN ""
    ELSE (IF Head(version)[2] \in {"0", "1", "2", "3", "4", "5", "6", "7", "8", "9", "."}
          THEN Head(version)[2] ELSE "")
         \o DigitsAndDots(Tail(version))

\* C18: a check of the local Terraform version passes exactly when the local version
\* was obtained and has the same digits and dots, in the same order, as the required
\* one; when a check has not passed, the run has ended there: the step loop is left
\* and no further step of the run is taken
C18_VersionGate ==
    /\ [](\A t \in TerraformChecks :
             /\ t[6] <=> (t[5].success /\ DigitsAndDots(t[5].version) = DigitsAndDots(t[4]))
             /\ ~t[6] => pc = "exited")
    /\ [][pc # "exited"]_vars

\* the gate let a local version pass that is written differently from the required
\* one, and the run went on to the next step
C18_Witness ==
    /\ \E t \in TerraformChecks : t[6] /\ t[5].version # t[4]
    /\ pc = "step" /\ si = 3 /\ wf = WUses

\* the jobs that can complete once the jobs of done have, in at most n more passes
RECURSIVE CanComplete(_, _)
CanComplete(done, n) ==
    IF n = 0 THEN done
    ELSE CanComplete(done \cup {wf.jobs[i].name : i \in {k \in DOMAIN wf.jobs :
                                                     NeedsOf(wf.jobs[k]) \subseteq done}},
                     n - 1)

\* the jobs whose needs can never be met: on a cycle, needing themselves, needing a
\* name that is no job, or needing such a job
Stuck == JobNames \ CanComplete({}, Len(wf.jobs))

\* C19: a job whose needs can never be met is never started (no instance, no
\* confirmation, no command); the pass after which only such jobs remain and in
\* which no job ran ends the scheduling loop normally, not by an error, and leaves
\* the results and the context as the completed jobs left them; nothing happens
\* after the loop has ended
C19_DeadlockIsSoftStop ==
    /\ [](\A n \in Stuck :
             /\ n \notin completedJobs
             /\ \A z \in Results : z.job # n
             /\ \A e \in Executed : e.job # n
             /\ <<"job", n>> \notin Prompts)
    /\ [][ (/\ pc = "loop" /\ passIdx = Len(wf.jobs) + 1 /\ ~anyJobRun
            /\ JobNames \ completedJobs # {}
            /\ JobNames \ completedJobs \subseteq Stuck)
           => /\ pc' = "done"
              /\ UNCHANGED <<resolvedVariables, stepOutputs, jobOutputs, executionResults,
                             completedJobs>>
      ]_vars
    /\ [][pc # "done"]_vars

\* the run of WStuck has ended with R completed, its output published, and the jobs
\* S and T left over
C19_Witness ==
    /\ wf = WStuck /\ pc = "done"
    /\ completedJobs = {"R"}
    /\ Stuck = {"S", "T"}
    /\ "R" \in DOMAIN jobOutputs

\* the result recorded for instance i of job n
ResultOf(n, i) == CHOOSE z \in Results : z.job = n /\ z.mi = i

\* the status recorded for the step id of instance i of job n
StepStatus(n, i, id) ==
    LET steps == ResultOf(n, i).steps
    IN  steps[CHOOSE k \in DOMAIN steps : steps[k].id = id].status

\* C20: after no or skip at a job confirmation the instance has executed no command
\* and no step and is recorded as skipped; after no or skip at a command confirmation
\* the command was not executed and its step is recorded as skipped
C20_DeclinedIsSkipped ==
    \A d \in hist.declined :
        /\ d[1] = "job" =>
              /\ ResultOf(d[2], d[3]).status = "skipped"
              /\ ResultOf(d[2], d[3]).steps = <<>>
              /\ \A e \in Executed : ~(e.job = d[2] /\ e.mi = d[3])
        /\ d[1] = "command" =>
              /\ StepStatus(d[2], d[3], d[4]) = "skipped"
              /\ \A e \in Executed : ~(e.job = d[2] /\ e.mi = d[3] /\ e.step = d[4])

\* the user answered no at the confirmation of a command and the run went on
C20_Witness ==
    /\ \E d \in hist.declined : d[1] = "command" /\ d[5] = "no"
    /\ pc = "done"

-----------------------------------------------------------------------------
(* Properties of the recorded results and of the context                   *)

\* C21: when a command of a job instance has exited non-zero, its step is recorded
\* as failed and the job instance is recorded as failed, from then on to the end of
\* the run
C21_FailureIsRecorded ==
    \A f \in hist.failures :
        /\ StepStatus(f[1], f[2], f[3]) = "failed"
        /\ ResultOf(f[1], f[2]).status = "failed"

\* a command failed, the user went on, and the run has ended
C21_Witness ==
    /\ hist.failures # {}
    /\ \E i \in DOMAIN hist.asked : hist.asked[i][1] = "failure"
    /\ pc = "done"

\* a job whose if is a status function that is constantly false
StaticallyFalse(job) == job.if \in {Call0("failure"), Call0("cancelled")}

\* the if of an instance of the job was evaluated and found false
ConditionFailed(n) == \E c \in hist.conds : c[1] = "job" /\ c[2] = n /\ ~c[4]

\* the expressions of a text, as the keys they are resolved under
Keys(text) == {Text(extractGitHubExpressions(text)[i]) :
                  i \in DOMAIN extractGitHubExpressions(text)}

\* the expressions in the env, the commands, the directories and the outputs of a job
ExpressionsOf(job) ==
    UNION ({Keys(job.env[i].value) : i \in DOMAIN job.env}
           \cup {Keys(job.steps[i].run) : i \in DOMAIN job.steps}
           \cup {Keys(job.steps[i].wd) : i \in DOMAIN job.steps}
           \cup {Keys(job.outputs[i].expr) : i \in DOMAIN job.outputs}
           \cup {Keys(job.wd)})

\* C22: of a job whose if is false no step is recorded or executed, no expression of
\* its env, its commands or its outputs is resolved or asked for, and nothing is
\* written to jobOutputs for it; its instance is recorded as skipped, and once its if
\* has been found false the job is in the completed set
C22_FalseIfSkipsJob ==
    \A i \in DOMAIN wf.jobs :
        (StaticallyFalse(wf.jobs[i]) \/ ConditionFailed(wf.jobs[i].name)) =>
            /\ \A z \in Results :
                  z.job = wf.jobs[i].name => z.status = "skipped" /\ z.steps = <<>>
            /\ \A e \in Executed : e.job # wf.jobs[i].name
            /\ wf.jobs[i].name \notin DOMAIN jobOutputs
            /\ \A q \in Prompts : q[2] \notin ExpressionsOf(wf.jobs[i])
            /\ \A c \in Calls : c[1] \notin ExpressionsOf(wf.jobs[i])
            /\ ConditionFailed(wf.jobs[i].name) => wf.jobs[i].name \in completedJobs

\* in run-all-jobs mode K was skipped by its if, and L, which needs K, has run
C22_Witness ==
    /\ wf = WSkipped /\ runAllJobsMode
    /\ Asked("job") = 1
    /\ ConditionFailed("K")
    /\ \E e \in Executed : e.job = "L"

\* the value the expression e has been resolved to
ResolvedValue(e) ==
    IF StartsWith(e, <<Id("matrix"), Dot>>)
    THEN String(CommandMatrix.b[Text(SubSeq(e, 3, Len(e)))])
    ELSE resolvedVariables[Text(e)]

\* the tokens between ${{ and }} are one blank, an expression and one blank
IsExact(inner) ==
    /\ Len(inner) >= 3
    /\ inner[1] = Ws /\ inner[Len(inner)] = Ws
    /\ Trim(inner) = SubSeq(inner, 2, Len(inner) - 1)

\* the text with every placeholder of the exact form replaced by the value of its
\* expression, and everything else as it is
RECURSIVE Replaced(_)
Replaced(s) ==
    IF s = <<>> THEN ""
    ELSE IF Head(s) = OpenB /\ FindTok(s, CloseB, 2) # 0
              /\ IsExact(SubSeq(s, 2, FindTok(s, CloseB, 2) - 1))
    THEN ResolvedValue(Trim(SubSeq(s, 2, FindTok(s, CloseB, 2) - 1)))
            \o Replaced(SubSeq(s, FindTok(s, CloseB, 2) + 1, Len(s)))
    ELSE TokText(Head(s)) \o Replaced(Tail(s))

\* the expressions of a command that are resolved through the cache
CachedExpressions(command) ==
    {Text(e) : e \in {x \in CommandExpressions :
                         /\ ~StartsWith(x, <<Id("matrix"), Dot>>)
                         /\ \E i \in DOMAIN extractGitHubExpressions(command) :
                               extractGitHubExpressions(command)[i] = x}}

\* C23: the text resolveVariablesInCommand returns is the command with every
\* placeholder of the form ${{ <expr> }}, one blank on each side, replaced by the
\* value its expression was resolved to, repeated ones too, and every other
\* placeholder left as written; the expression of every placeholder, exact or not,
\* has been resolved and cached
C23_ExactPlaceholdersReplaced ==
    (mode = "command" /\ fn.done) =>
        /\ Text(fn.text) = Replaced(fn.command)
        /\ CachedExpressions(fn.command) \subseteq DOMAIN resolvedVariables

\* a command with the same exact placeholder twice, whose expression the user
\* answered with a text holding $$, has been resolved
C23_Witness ==
    /\ mode = "command" /\ fn.done
    /\ fn.command = <<Raw("echo"), Ws>>
                       \o Placeholder(Dotted(<<"github", "event", "inputs", "x">>), 1) \o <<Ws>>
                       \o Placeholder(Dotted(<<"github", "event", "inputs", "x">>), 1)
    /\ fn.ans = <<"a$$b">>

\* the value a call returned is what context.resolvedVariables holds for its expression
IsCached(c) == c[1] \in DOMAIN resolvedVariables /\ resolvedVariables[c[1]] = c[2]

C25_CacheIsWriteOnce ==
    [][/\ \A k \in DOMAIN resolvedVariables :
             k \in DOMAIN resolvedVariables' /\ resolvedVariables'[k] = resolvedVariables[k]
       /\ (mode = "resolve" /\ fn'.n = fn.n + 1 /\ fn'.e \in DOMAIN resolvedVariables) =>
             /\ fn'.v = resolvedVariables[fn'.e]
             /\ hist'.asked = hist.asked]_vars

\* needs.A.outputs.o was asked for and cached, job A then published another value for
\* it, and the next call for it returned the cached one
C25_Witness ==
    /\ mode = "resolve" /\ fn.n = MaxCalls
    /\ fn.e = Text(NeedsOutput("A", "o"))
    /\ fn.e \in DOMAIN resolvedVariables
    /\ JoHas(jobOutputs, "A", "o") /\ jobOutputs["A"]["o"] # fn.v
    /\ <<fn.e, fn.v, "cache">> \in Calls

\* the for loop over the jobs has come to its end
AtPassEnd == mode = "run" /\ pc = "loop" /\ passIdx = Len(wf.jobs) + 1

\* the jobs the pass that is going on has added to the completed set
CompletedInPass == completedJobs \ hist.passStart

\* C26: at the end of a pass that added a job to the completed set, with jobs still
\* to complete, another pass is started; the loop ends with jobs still to complete
\* only after a pass that completed none
C26_ProgressMakesAnotherPass ==
    [][(AtPassEnd /\ CompletedInPass # {} /\ JobNames \ completedJobs # {})
          => (pc' = "loop" /\ passIdx' = 1)]_vars

\* the run of WEmpty has ended after the pass in which N, expanded to no instance,
\* was completed: Z, whose needs are met, has not been started
C26_Witness ==
    /\ wf = WEmpty /\ pc = "done"
    /\ completedJobs = {"A", "N"}
    /\ CompletedInPass = {"N"}
    /\ \A z \in Results : z.job # "Z"
    /\ areDependenciesMet(wf.jobs[1], completedJobs)

\* the step loop of the current instance has run to its end
AtEndOfSteps == mode = "run" /\ pc = "step" /\ si = Len(CurJob.steps) + 1

\* C27: context.jobOutputs changes only when the step loop of an instance has run to
\* its end, only in the entry of the job of that instance, and it then holds a value
\* for every name of the job's outputs; no other step of a run (a confirmation, a
\* condition, a command, its return, whatever was answered) writes to it
C27_JobOutputsAfterStepLoop ==
    [][jobOutputs' # jobOutputs =>
          /\ AtEndOfSteps
          /\ \A n \in DOMAIN jobOutputs :
                n # CurJob.name => n \in DOMAIN jobOutputs' /\ jobOutputs'[n] = jobOutputs[n]
          /\ \A i \in DOMAIN CurJob.outputs :
                JoHas(jobOutputs', CurJob.name, CurJob.outputs[i].name)]_vars

\* job R of WStuck has published both its outputs, its command having failed and the
\* user having gone on
C27_Witness ==
    /\ wf = WStuck
    /\ JoHas(jobOutputs, "R", "o") /\ JoHas(jobOutputs, "R", "p")
    /\ <<"R", 1, "r">> \in hist.failures

\* a command has just returned
CommandReturned == Len(hist'.written) = Len(hist.written) + 1

\* the record of the command that has just returned
LastWritten == hist'.written[Len(hist'.written)]

\* C28: when a command returns, whatever its exit code and whatever is answered at
\* the question after a failure, every key=value its output file holds is in
\* context.stepOutputs under the job and the id of its step, the value being all that
\* follows the first = and key and value being trimmed
C28_OutputsAlwaysRecorded ==
    [][CommandReturned =>
          \A key \in DOMAIN LastWritten.outs :
              /\ SoHas(stepOutputs', LastWritten.job, LastWritten.step, key)
              /\ stepOutputs'[LastWritten.job][LastWritten.step][key] = LastWritten.outs[key]
      ]_vars

\* the command of S has failed after writing its padded output file, the user has
\* answered no, and the run has ended without an output of S
C28_Witness ==
    /\ wf = WSteps /\ pc = "done"
    /\ \E i \in DOMAIN hist.written : hist.written[i].file = PaddedFile
    /\ <<"J", 1, "S">> \in hist.failures
    /\ hist.asked[Len(hist.asked)] = <<"failure", "S">>
    /\ ~SoHas(stepOutputs, "J", "S", "key")

\* the steps recorded for an instance are the first steps of its job, in declared order
StepsInDeclaredOrder(z) ==
    /\ Len(z.steps) <= Len(JobNamed(z.job).steps)
    /\ \A k \in DOMAIN z.steps : z.steps[k].id = JobNamed(z.job).steps[k].id

\* the commands that were started and have not returned
CommandsInProgress == Len(hist.exec) - Len(hist.written)

\* C29: the steps recorded for a job instance are the first steps of its job in
\* declared order, each once; at most one command is in progress, and while it is, it
\* is the command of the last recorded step of the last started instance; only the
\* last started instance is ever changed; a command starts and a question is asked
\* only while no command is in progress, and what was asked is only added to
C29_StrictlySequential ==
    /\ [](mode = "run" => \A z \in Results : StepsInDeclaredOrder(z))
    /\ [](mode = "run" => CommandsInProgress = IF pc = "exec" THEN 1 ELSE 0)
    /\ [](mode = "run" /\ pc = "exec" =>
             /\ hist.exec[Len(hist.exec)].job = executionResults[Len(executionResults)].job
             /\ hist.exec[Len(hist.exec)].mi = executionResults[Len(executionResults)].mi
             /\ hist.exec[Len(hist.exec)].step = CurStep.id
             /\ Len(executionResults[Len(executionResults)].steps) = si)
    /\ [][/\ Len(executionResults') >= Len(executionResults)
          /\ \A i \in 1..(Len(executionResults) - 1) :
                executionResults'[i] = executionResults[i]
          /\ Len(hist'.asked) >= Len(hist.asked)
          /\ SubSeq(hist'.asked, 1, Len(hist.asked)) = hist.asked
          /\ (hist'.asked # hist.asked \/ Len(hist'.exec) > Len(hist.exec))
                => CommandsInProgress = 0 \/ hist'.asked[Len(hist'.asked)][1] = "failure"
         ]_vars

\* the second instance of the matrix job M is running its command, the first one
\* having run its own to the end
C29_Witness ==
    /\ wf = WMatrix /\ pc = "exec" /\ mi = 2
    /\ Len(hist.exec) = 2 /\ Len(hist.written) = 1
    /\ Len(executionResults) = 2

\* the positions in executionResults of the instances of job n
InstancesAt(er, n) == {i \in DOMAIN er : er[i].job = n}

\* an instance of a job is being run
InstanceRunning == mode = "run" /\ pc \in {"instance", "step", "exec"}

\* C30: the instances of a job are started one after the other with the numbers 1, 2,
\* ... and nothing else is started between them; the k-th runs with the k-th binding
\* set; a job enters the completed set in the step in which its last instance returns,
\* when one instance per binding set has been started; every job that was started
\* found each job it needs in the completed set, none of whose instances is running
C30_MatrixInstancesInOrder ==
    /\ [](mode = "run" =>
             \A i \in DOMAIN executionResults :
                /\ executionResults[i].mi =
                      Cardinality({k \in InstancesAt(executionResults, executionResults[i].job) :
                                      k <= i})
                /\ executionResults[i].mi > 1 =>
                      executionResults[i - 1].job = executionResults[i].job
                /\ \A d \in NeedsOf(JobNamed(executionResults[i].job)) :
                      /\ d \in completedJobs
                      /\ \A k \in InstancesAt(executionResults, d) : k < i)
    /\ [](InstanceRunning =>
             /\ CurJob.name \notin completedJobs
             /\ mi \in 1..Len(matrixValues)
             /\ executionResults # <<>> /\ pc # "instance" =>
                   executionResults[Len(executionResults)].mi = mi)
    /\ [](wf = WMatrix => \A e \in Executed : e.cmd = "echo " \o <<"a", "b">>[e.mi])
    /\ [][completedJobs' # completedJobs =>
             /\ completedJobs' = completedJobs \cup {CurJob.name}
             /\ {executionResults'[i].mi : i \in InstancesAt(executionResults', CurJob.name)}
                   = 1..Len(matrixValues')
             /\ ~InstanceRunning']_vars

\* in the run of WEmpty both instances of N have run, and Z, which needs N, was
\* started after them
C30_Witness ==
    /\ wf = WEmpty
    /\ Cardinality(InstancesAt(executionResults, "N")) = 2
    /\ InstancesAt(executionResults, "Z") # {}
    /\ \E e \in Executed : e.job = "N" /\ e.mi = 2 /\ e.cmd = "use b"

-----------------------------------------------------------------------------
(* Properties of failures, mocks and the end of a run                      *)

\* the command that has just returned has failed
CommandFailed == CommandReturned /\ ~LastWritten.ok

\* the step loop goes on with the next step
GoesOnWithNextStep == pc' = "step" /\ si' = si + 1

\* C31: when a command has failed in run-all-commands mode nothing is asked and the
\* step loop goes on with the next step; otherwise the user is asked, after yes or all
\* the step loop goes on with the next step, run-all-commands mode being on from then
\* exactly after all, and after no the instance returns and the run goes on with the
\* next instance or the next job
C31_FailureLeavesChoiceToUser ==
    [][CommandFailed =>
          IF runAllCommandsMode
          THEN hist'.asked = hist.asked /\ GoesOnWithNextStep /\ runAllCommandsMode'
          ELSE /\ hist'.asked = Append(hist.asked, <<"failure", CurStep.id>>)
               /\ LastWritten.resp \in {"yes", "all"} =>
                     GoesOnWithNextStep /\ (runAllCommandsMode' <=> LastWritten.resp = "all")
               /\ LastWritten.resp = "no" =>
                     /\ ~runAllCommandsMode'
                     /\ IF mi < Len(matrixValues)
                        THEN pc' = "instance" /\ mi' = mi + 1
                        ELSE /\ pc' = "loop" /\ passIdx' = passIdx + 1
                             /\ completedJobs' = completedJobs \cup {CurJob.name}]_vars

\* a command failed, the user answered no, and the next command that was run was one
\* of another job
C31_Witness ==
    \E i \in 1..(Len(hist.exec) - 1) :
        /\ ~hist.written[i].ok /\ hist.written[i].resp = "no"
        /\ hist.exec[i + 1].job # hist.exec[i].job

\* what handleAction has just been called for outside a dry run: the entries
\* <<"action", job, instance, step, kind of mock, what the mock would return>>
ActionsHandled == {t \in hist'.tools \ hist.tools : t[1] = "action"}

\* C32: when handleAction has found no mock directory, no mock file, no exported
\* function, or a mock that throws or returns no object, context.stepOutputs is as it
\* was and the step loop goes on with the next step; when the mock has returned an
\* object, every entry of it is the output of that step, as a string
C32_MockFailureIsNotFatal ==
    [][\A t \in ActionsHandled :
          /\ GoesOnWithNextStep
          /\ t[5] # "object" => stepOutputs' = stepOutputs
          /\ t[5] = "object" =>
                \A k \in DOMAIN t[6] :
                    /\ SoHas(stepOutputs', t[2], t[4], k)
                    /\ stepOutputs'[t[2]][t[4]][k] = String(t[6][k])]_vars

\* the mock of the third step of U threw, no output was stored, the last step of U was
\* handled and the run has ended
C32_Witness ==
    /\ wf = WUses /\ pc = "done"
    /\ \E t \in hist.tools : t[1] = "action" /\ t[5] = "throws" /\ t[6] # NoOutputs
    /\ stepOutputs = EmptyMap
    /\ \E z \in Results : z.job = "U" /\ Len(z.steps) = 4

\* C33: at the end of every run, also of one ended by the user's quit, the summary has
\* been printed, and it covers every job instance and step started before the end.
C33_SummaryAtEveryEnd ==
    RunEnded /\ Len(wf.jobs) > 0 /\ pc # "exited"
        => hist.summary = <<executionResults>>

\* a run that went through its scheduling loop to the end prints the summary once, with
\* every recorded job instance and step, quits at a command or failure prompt included
C33_SummaryAfterLoop ==
    /\ pc = "done" /\ Len(wf.jobs) > 0 => hist.summary = <<executionResults>>
    /\ pc # "done" => hist.summary = <<>>

C33_Witness ==
    /\ pc = "aborted" /\ "job" \in hist.quits
    /\ Len(executionResults) > 1
    /\ hist.summary = <<>>

\* C34: runWorkflow terminates when every prompt and command returns: a pass over the
\* jobs either has added a job to the completed set or ends the loop, so there are at
\* most (number of jobs + 1) passes, whatever the needs are, cyclic ones included
C34_RunTerminates ==
    /\ [](hist.passes <= Len(wf.jobs) + 1)
    /\ [][AtPassEnd => (CompletedInPass # {} \/ pc' = "done")]_vars
    /\ [][AtPassEnd /\ pc' = "loop" => Cardinality(completedJobs) >= hist'.passes]_vars
    /\ <>RunEnded

\* the run of the cyclic workflow has ended after a second pass that completed no job:
\* P and Q, each needing the other, are left over
C34_Witness ==
    /\ wf = WCycle /\ pc = "done"
    /\ hist.passes = 2 /\ completedJobs = {"R"}
    /\ hist.summary # <<>>

\* the needs of the workflow can all be met: they are acyclic and name only jobs
Schedulable == Stuck = {}

\* the run is over, the user never answered quit and the process did not exit
EndedWithoutQuitOrError == RunEnded /\ pc = "done" /\ hist.quits = {}

\* C35: for a workflow whose needs are acyclic and name only existing jobs, a run
\* without quit and without fatal error ends (C34) with every job in the completed
\* set, whatever the matrices expand to and whatever the other answers are.
C35_EveryJobCompletes ==
    (Schedulable /\ EndedWithoutQuitOrError) => completedJobs = JobNames

\* the same for the runs in which every completed job had at least one instance
C35_EveryJobCompletesUnlessEmptyMatrix ==
    (/\ Schedulable /\ EndedWithoutQuitOrError
     /\ \A n \in completedJobs : \E z \in Results : z.job = n)
        => completedJobs = JobNames

\* the run of WEmpty is over without any quit: the matrix of N had no instance and Z,
\* which needs only N, is not completed
C35_Witness ==
    /\ wf = WEmpty /\ Schedulable /\ EndedWithoutQuitOrError
    /\ "N" \in completedJobs /\ "Z" \notin completedJobs
    /\ \A z \in Results : z.job # "N"

\* an instance has been started: its result has been pushed to executionResults
InstanceStarted == Len(executionResults') = Len(executionResults) + 1

\* C36: no job is run twice: the completed set only grows; an instance is started only
\* of a job that is not in the completed set, so a completed job is never started
\* again; no two started instances are the same instance of the same job; and when a
\* job enters the completed set, exactly one instance per binding set of its matrix
\* (one instance for a job without matrix) has been started
C36_NoJobRunTwice ==
    /\ [][completedJobs \subseteq completedJobs']_vars
    /\ [][Len(executionResults') >= Len(executionResults)
          /\ (InstanceStarted =>
                /\ CurJob.name \notin completedJobs
                /\ executionResults'[Len(executionResults')].job = CurJob.name
                /\ executionResults'[Len(executionResults')].mi = mi)]_vars
    /\ [](mode = "run" =>
             \A i, k \in DOMAIN executionResults :
                (/\ executionResults[i].job = executionResults[k].job
                 /\ executionResults[i].mi = executionResults[k].mi) => i = k)
    /\ [][completedJobs' # completedJobs =>
             Cardinality(InstancesAt(executionResults', CurJob.name)) =
                IF CurJob.hasMatrix THEN Len(matrixValues') ELSE 1]_vars

\* the run of WEmpty has ended after three passes with every job completed: N, run
\* twice for its two files in the second pass, and A were passed over in the third
C36_Witness ==
    /\ wf = WEmpty /\ pc = "done" /\ hist.passes = 3
    /\ completedJobs = JobNames
    /\ Cardinality(InstancesAt(executionResults, "N")) = 2
    /\ Len(executionResults) = 4

\* instance i of job j has stored the value v as output n of its step s: read from
\* the output file of the step's command, or returned by the mock of its action
StoredByInstance(j, i, s, n, v) ==
    \/ \E f \in hist.files :
          /\ f[1] = j /\ f[2] = i /\ f[3] = s
          /\ n \in DOMAIN f[4] /\ f[4][n] = v
    \/ \E t \in hist.tools :
          /\ t[1] = "action" /\ t[2] = j /\ t[3] = i /\ t[4] = s /\ MockStores(t[5])
          /\ n \in DOMAIN t[6] /\ StringAll(t[6])[n] = v

\* the outputs of the job being run that are a reference steps.<id>.outputs.<name>
\* to a value the context holds
StepReferences ==
    {i \in DOMAIN CurJob.outputs :
        /\ Includes(CurJob.outputs[i].expr, <<Id("steps"), Dot>>)
        /\ JobOutputStepMatch(CurJob.outputs[i].expr).ok
        /\ SoHas(stepOutputs, CurJob.name, JobOutputStepMatch(CurJob.outputs[i].expr).step,
                 JobOutputStepMatch(CurJob.outputs[i].expr).out)}

C37_StepOutputsLocalToJob ==
    [][AtEndOfSteps =>
          \A i \in StepReferences :
              \E k \in 1..Len(matrixValues) :
                  StoredByInstance(CurJob.name, k,
                                   JobOutputStepMatch(CurJob.outputs[i].expr).step,
                                   JobOutputStepMatch(CurJob.outputs[i].expr).out,
                                   jobOutputs'[CurJob.name][CurJob.outputs[i].name])]_vars

NeedsOutputText(j, n) == Text(Dotted(<<"needs", j, "outputs", n>>))

\* the calls of resolveGitHubExpression made in the step that is being taken
NewCalls == hist'.calls \ hist.calls

\* C38: the outputs of a job are kept per job name: an instance that runs its steps to
\* the end sets every output of the job, a step reference taking the value the context
\* holds then, over what an earlier instance had set; no other step of a run changes
\* context.jobOutputs, so an instance that was declined, skipped or left early leaves
\* the values of the earlier instances; and once the job is in the completed set its
\* outputs stay as the last instance that ran to the end left them, and that is what a
\* job started later is given for needs.<job>.outputs.<name>
C38_LastFinishedInstanceWins ==
    /\ [](DOMAIN jobOutputs \subseteq JobNames)
    /\ [][AtEndOfSteps =>
             /\ \A i \in DOMAIN CurJob.outputs :
                    JoHas(jobOutputs', CurJob.name, CurJob.outputs[i].name)
             /\ \A i \in StepReferences :
                    jobOutputs'[CurJob.name][CurJob.outputs[i].name] =
                       stepOutputs[CurJob.name]
                                  [JobOutputStepMatch(CurJob.outputs[i].expr).step]
                                  [JobOutputStepMatch(CurJob.outputs[i].expr).out]]_vars
    /\ [][~AtEndOfSteps => jobOutputs' = jobOutputs]_vars
    /\ [][\A n \in completedJobs \cap DOMAIN jobOutputs :
             n \in DOMAIN jobOutputs' /\ jobOutputs'[n] = jobOutputs[n]]_vars
    /\ [][\A n \in completedJobs \cap DOMAIN jobOutputs :
             \A o \in DOMAIN jobOutputs[n], c \in NewCalls :
                c[1] = NeedsOutputText(n, o) => c[2] = jobOutputs[n][o]]_vars

\* both instances of M have run to the end: the first had no output of s and the user
\* was asked for the value of o; the second stored one, which o has now
C38_Witness ==
    /\ wf = WMatrix /\ pc = "done" /\ completedJobs = {"M"}
    /\ <<"M", 1, "s", EmptyMap>> \in hist.files
    /\ <<"M", 2, "s", ("v" :> FilesJson)>> \in hist.files
    /\ \E k \in DOMAIN hist.asked : hist.asked[k][1] = "input"
    /\ jobOutputs = ("M" :> ("o" :> FilesJson))

\* a condition of a job on the output o of job A
ConditionOnOutput == Equals(NeedsOutput("A", "o"), "7")

\* the text evaluateJobCondition evaluates for that condition in the current context,
\* and the value it has put in the place of needs.A.outputs.o
SubstitutedCondition == evaluateJobCondition(ConditionOnOutput, wf.env, Ctx(<<>>)).text

\* resolveGitHubExpression has just been called for needs.A.outputs.o with an output o
\* of A in context.jobOutputs
StoredOutputResolved ==
    /\ mode = "resolve" /\ fn'.n = fn.n + 1
    /\ fn'.e = Text(NeedsOutput("A", "o"))
    /\ "A" \in DOMAIN jobOutputs /\ "o" \in DOMAIN jobOutputs["A"]

\* C39 as stated: whenever context.jobOutputs holds a value for output o of job A,
\* resolveGitHubExpression('needs.A.outputs.o') returns that value, which is the value
\* evaluateJobCondition substitutes, also when the user had typed a value for the
\* expression before A recorded its output.
C39_ReadersAlwaysAgree ==
    [][StoredOutputResolved =>
          /\ fn'.v = jobOutputs["A"]["o"]
          /\ SubstitutedCondition[1] = Str(fn'.v)]_vars

\* C39: evaluateJobCondition always substitutes the stored value; and
\* resolveGitHubExpression returns the stored value, asking nothing and caching
\* nothing, when context.resolvedVariables has no entry for the expression, and the
\* entry (the value typed before A recorded its output) when it has one
C39_ReadersAgreeUnlessCached ==
    [][StoredOutputResolved =>
          /\ SubstitutedCondition[1] = Str(jobOutputs["A"]["o"])
          /\ hist'.asked = hist.asked
          /\ resolvedVariables' = resolvedVariables
          /\ IF fn'.e \in DOMAIN resolvedVariables
             THEN fn'.v = resolvedVariables[fn'.e]
             ELSE fn'.v = jobOutputs["A"]["o"]]_vars

\* needs.A.outputs.o was resolved twice after A had recorded 7 for it, nothing having
\* been typed for it: both readers give 7
C39_Witness ==
    /\ mode = "resolve" /\ fn.n = MaxCalls
    /\ fn.e = Text(NeedsOutput("A", "o")) /\ fn.v = "7"
    /\ jobOutputs = ("A" :> ("o" :> "7"))
    /\ fn.e \notin DOMAIN resolvedVariables
    /\ hist.calls = {<<fn.e, "7", "live">>}
    /\ SubstitutedCondition[1] = Str("7")
    /\ evaluateJobCondition(ConditionOnOutput, wf.env, Ctx(<<>>)).result

\* the instance that is being started is declined at its confirmation (no or skip)
InstanceDeclined ==
    /\ mode = "run" /\ pc = "instance"
    /\ \E d \in hist'.declined \ hist.declined : d[1] = "job"

\* the step that is being handled is left without its command or action being run: its
\* if is false, or its command is answered with skip or no
StepNotRun ==
    /\ mode = "run" /\ pc = "step" /\ si <= Len(CurJob.steps)
    /\ \/ \E d \in hist'.declined \ hist.declined : d[1] = "command"
       \/ <<"step", CurJob.name, Text(CurStep.if), FALSE>> \in hist'.conds \ hist.conds

\* C40: an instance declined at its confirmation changes nothing in resolvedVariables,
\* stepOutputs and jobOutputs and asks nothing but the confirmation (no expression is
\* resolved, no condition evaluated, no step started); a step whose if is false or
\* whose command is answered with skip or no starts no command and leaves stepOutputs
\* as it was
C40_DecliningLeavesContext ==
    /\ [][InstanceDeclined =>
             /\ resolvedVariables' = resolvedVariables
             /\ stepOutputs' = stepOutputs
             /\ jobOutputs' = jobOutputs
             /\ hist'.asked = Append(hist.asked, <<"job", CurJob.name>>)
             /\ hist'.calls = hist.calls /\ hist'.conds = hist.conds
             /\ pc' # "step"
             /\ executionResults'[Len(executionResults')].status = "skipped"
             /\ executionResults'[Len(executionResults')].steps = <<>>]_vars
    /\ [][StepNotRun =>
             /\ stepOutputs' = stepOutputs
             /\ jobOutputs' = jobOutputs
             /\ pc' = "step" /\ si' = si + 1
             /\ hist'.exec = hist.exec /\ hist'.written = hist.written
             /\ hist'.tools = hist.tools]_vars

\* the first instance of M was declined and the command of the second was skipped:
\* no command has run and no step output is stored; env.REGION was resolved for the
\* second instance only
C40_Witness ==
    /\ wf = WMatrix /\ pc = "done"
    /\ hist.declined = {<<"job", "M", 1, "", "no">>, <<"command", "M", 2, "s", "skip">>}
    /\ hist.exec = <<>> /\ stepOutputs = EmptyMap
    /\ DOMAIN resolvedVariables = {"env.REGION"}

====
